---------------------------- MODULE Spec2Model ----------------------------
(***************************************************************************)
(* State-machine model of the d0t repository's decision engines and        *)
(* gateway:                                                                *)
(*   - the ghost engine            (ghost.js,      src/unnamed/part_007)   *)
(*   - the autonomous controller   (autonomous.js, src/keyboard.js:118-)   *)
(*   - the smart controller        (smart-auto.js, src/smart-auto.js)      *)
(*   - the gateway task queue      (gateway.js,    src/unnamed/part_005)   *)
(*   - the shared agent            (agent.js,      src/unnamed/part_002)   *)
(*   - the timeout sensor          (src/timeout-sensor.js)                 *)
(*   - the desktop app with modes  (main.js,       src/unnamed/part_000)   *)
(* Each program is a separate OS process; the variable prog says which one *)
(* a behaviour runs, and every action is guarded by it.                    *)
(***************************************************************************)
EXTENDS Integers, Sequences, FiniteSets, Bags, TLC

(***************************************************************************)
(* Model bounds.                                                           *)
(***************************************************************************)
\* words on one recognised screen
MaxWords == 2
\* scan cycles of a run with the rich screen pool
MaxCycles == 4
\* ticks by which a due loop timer may fire late (blocking screenshot/click)
MaxLate == 1
\* consecutive clicks of one button type the ghost model follows
MaxSameButton == 3
\* scanAndClick calls of one run of the autonomous controller
MaxAutoScans == 3
\* gateway click commands of one run of the autonomous controller
MaxCmdClicks == 1
\* ticks an awaited see() or click() may take
MaxAwaitTicks == 1
\* scan cycles of one run of smart-auto
MaxSmartScans == 4
\* clicks smart-auto made before a run that starts with a filled click list,
\* and the scans of such a run
MaxEarlierClicks == 21
MaxRecordScans == 2
\* task messages sent to the gateway in one run
MaxTasks == 3
\* actions of the longest task
MaxActions == 3
\* direct client actions (see, click, clickOn, type) sent in one run
MaxDirectOps == 3
MaxRestarts == 1
MaxStarts == 2
MaxBadMessages == 2
\* cycles of sensorLoop in one run of the timeout sensor
MaxSensorCycles == 10
\* hotkey, tray, timer and caller events of one run of the desktop app
MaxMainEvents == 6
\* scan cycles of a run of the ghost that keeps what decide was given
MaxDecideCycles == 5

(***************************************************************************)
(* Generic helpers.                                                        *)
(***************************************************************************)
Null == <<>>
Some(v) == <<v>>

\* Array.prototype.sort with a comparator a.key - b.key (stable in V8):
\* the element at index i lands behind every element with a smaller key and
\* behind the earlier elements with an equal key.
StableSortBy(seq, Key(_)) ==
  CHOOSE r \in
    { LET n == Len(s)
          rank(i) == Cardinality({j \in 1..n :
                         \/ Key(s[j]) < Key(s[i])
                         \/ (Key(s[j]) = Key(s[i]) /\ j < i)}) + 1
      IN  [k \in 1..n |-> s[CHOOSE i \in 1..n : rank(i) = k]] : s \in {seq} } : TRUE

\* index of the first element of s equal to e (Array.indexOf, 0-based), -1 if none
IndexOf(s, e) ==
  IF \E i \in 1..Len(s) : s[i] = e
  THEN (CHOOSE i \in 1..Len(s) : s[i] = e /\ \A j \in 1..(i-1) : s[j] # e) - 1
  ELSE -1

RECURSIVE FlattenSeq(_)
FlattenSeq(ss) == IF ss = <<>> THEN <<>> ELSE Head(ss) \o FlattenSeq(Tail(ss))

Max(a, b) == IF a >= b THEN a ELSE b

\* Math.round(v / d) for integers v >= 0, d > 0 with d even (round half up)
RoundDiv(v, d) == (v + d \div 2) \div d

\* sequences of at most n distinct elements of S
DistinctSeqs(S, n) ==
  UNION {{s \in [1..k -> S] : \A i, j \in 1..k : i # j => s[i] # s[j]} : k \in 0..n}

(***************************************************************************)
(* GHOST ENGINE  (src/unnamed/part_007)                                    *)
(***************************************************************************)
pollInterval == 5000
confirmScans == 2
maxActionsPerMinute == 10
rateDecrementDelay == 60000

\* one model tick of the ghost is one poll interval
GhostTick == pollInterval
GhostPollTicks == pollInterval \div GhostTick
GhostRateTicks == rateDecrementDelay \div GhostTick

watchPatterns == <<"Continue", "Keep", "Allow", "Proceed", "Yes", "Run", "OK">>
priorityOrder == <<"Allow", "Yes", "OK", "Keep", "Proceed", "Run", "Continue">>
dialogPatterns == {"Allow", "Yes", "OK", "Keep"}

\* The word texts the model feeds in, with what the regular expression
\* ^"?PATTERN"?[,.]?$ (flag i) sees in each: the lower-cased core when the
\* text is an optionally quoted core with an optional trailing , or . and
\* "" when it is not of that shape.
RegexCore(text) ==
  CASE text = "Continue"    -> "continue"
    [] text = "continue."   -> "continue"
    [] text = "\"Continue\"," -> "continue"
    [] text = "Continued"   -> "continued"
    [] text = "Continue!"   -> ""
    [] text = "Allow"       -> "allow"
    [] text = "ALLOW"       -> "allow"
    [] text = "Keep"        -> "keep"
    [] text = "Yes"         -> "yes"
    [] text = "OK"          -> "ok"
    [] text = "Run"         -> "run"
    [] text = "Proceed"     -> "proceed"
    [] OTHER                -> ""

LowerCase(p) ==
  CASE p = "Continue" -> "continue"
    [] p = "Keep"     -> "keep"
    [] p = "Allow"    -> "allow"
    [] p = "Proceed"  -> "proceed"
    [] p = "Yes"      -> "yes"
    [] p = "Run"      -> "run"
    [] p = "OK"       -> "ok"
    [] p = "Accept"   -> "accept"
    [] OTHER          -> p

RegexTest(pattern, text) == RegexCore(text) = LowerCase(pattern)

Word(t, x, y, c) == [text |-> t, x |-> x, y |-> y, confidence |-> c]

\* findButtons: per pattern in watch order, the words that match with
\* confidence > 50; then sorted by confidence, highest first.
MatchesButton(pattern, word) == RegexTest(pattern, word.text) /\ word.confidence > 50

ButtonOf(pattern, word) ==
  [text |-> pattern, match |-> word.text, x |-> word.x, y |-> word.y,
   confidence |-> word.confidence]

FoundFor(pattern, words) ==
  LET hits == SelectSeq(words, LAMBDA w : MatchesButton(pattern, w))
  IN  [i \in 1..Len(hits) |-> ButtonOf(pattern, hits[i])]

findButtons(words) ==
  LET found == FlattenSeq([p \in 1..Len(watchPatterns) |-> FoundFor(watchPatterns[p], words)])
  IN  StableSortBy(found, LAMBDA b : 0 - b.confidence)

InBottomRight(b) == b.x > 1200 /\ b.y > 500

InDialog(b) ==
  /\ b.text \in dialogPatterns
  /\ b.confidence > 90
  /\ b.y > 350 /\ b.y < 650
  /\ b.x > 400 /\ b.x < 900

\* mutant: no region filter
RegionButtonsAll(buttons) == buttons

\* FILTER 1 / FILTER 2 of decide: the bottom-right buttons if there are any,
\* else the dialog buttons (possibly none)
RegionButtons(buttons) ==
  LET bottomRightButtons == SelectSeq(buttons, InBottomRight)
      dialogButtons == SelectSeq(buttons, InDialog)
  IN  IF Len(bottomRightButtons) > 0 THEN bottomRightButtons ELSE dialogButtons

\* mutant: the buttons stay in confidence order
SortByPriorityNot(buttons) == buttons

SortByPriority(buttons) == StableSortBy(buttons, LAMBDA b : IndexOf(priorityOrder, b.text))

\* mutant: no stuck detection
CandidateIndexFirst(st, buttons) == 1

\* stuck detection: index (1-based) of the button decide takes as best
CandidateIndex(st, buttons) ==
  IF st.sameButtonCount >= 2 /\ Len(buttons) > 1
     /\ \E i \in 1..Len(buttons) : Some(buttons[i].text) # st.lastClickedButton
  THEN CHOOSE i \in 1..Len(buttons) :
         /\ Some(buttons[i].text) # st.lastClickedButton
         /\ \A j \in 1..(i-1) : Some(buttons[j].text) = st.lastClickedButton
  ELSE 1

\* mutant: the key holds the exact position, not its 50-pixel bucket
ButtonKeyExact(b) == [text |-> b.text, bx |-> b.x, by |-> b.y]

\* `${best.text}@${Math.round(best.x/50)}x${Math.round(best.y/50)}`
ButtonKey(b) == [text |-> b.text, bx |-> RoundDiv(b.x, 50), by |-> RoundDiv(b.y, 50)]

RateLimited(st) == st.actionsThisMinute >= maxActionsPerMinute

\* state.pendingButton / state.pendingCount after the sighting of key
PendingAfterSighting(st, key) ==
  IF st.pendingButton = Some(key)
  THEN [st EXCEPT !.pendingCount = @ + 1]
  ELSE [st EXCEPT !.pendingButton = Some(key), !.pendingCount = 1]

\* mutant: a first sighting is enough
AwaitingConfirmationNever(st) == FALSE

\* mutant: the threshold test is off by one
AwaitingConfirmationOffByOne(st) == st.pendingCount < confirmScans - 1

AwaitingConfirmation(st) == st.pendingCount < confirmScans

\* mutant: reaching the threshold resets the count and keeps the key
ResetPendingCountOnly(st) == [st EXCEPT !.pendingCount = 0]

ResetPending(st) == [st EXCEPT !.pendingButton = Null, !.pendingCount = 0]

TrackClicked(st, best) ==
  [st EXCEPT
     !.sameButtonCount = IF Some(best.text) = st.lastClickedButton THEN @ + 1 ELSE 1,
     !.lastClickedButton = Some(best.text),
     !.lastClickedPos = Some([x |-> best.x, y |-> best.y])]

Wait(st, reason, sel, count) ==
  [st |-> st, action |-> "wait", x |-> 0, y |-> 0, reason |-> reason,
   selected |-> sel, count |-> count]

\* what decide computes from the words alone: how many buttons findButtons
\* returned, and the buttons of the action region in priority order
Candidates(words) ==
  [found |-> Len(findButtons(words)),
   buttons |-> SortByPriority(RegionButtons(findButtons(words)))]

\* decide(ocrResult): the new state and the decision.  cand is
\* Candidates(ocrResult.words); selected is the candidate the confirmation
\* step looked at (Null when decide returned before it), count its
\* pendingCount after the update.
decide(st, cand) ==
  LET buttons == cand.buttons
      best == buttons[CandidateIndex(st, buttons)]
      seen == PendingAfterSighting(st, ButtonKey(best))
  IN  IF RateLimited(st) THEN Wait(st, "Rate limited", Null, 0)
      ELSE IF cand.found = 0 THEN Wait(st, "No buttons found", Null, 0)
      ELSE IF Len(buttons) = 0 THEN Wait(st, "No buttons in chat panel or dialogs", Null, 0)
      ELSE IF AwaitingConfirmation(seen)
           THEN Wait(seen, "Confirming button is real", Some(best), seen.pendingCount)
      ELSE [st |-> TrackClicked(ResetPending(seen), best),
            action |-> "click", x |-> best.x, y |-> best.y, reason |-> "Confirmed",
            selected |-> Some(best), count |-> seen.pendingCount]

(***************************************************************************)
(* AUTONOMOUS CONTROLLER  (autonomous.js, src/keyboard.js from line 118)   *)
(***************************************************************************)
autoPollInterval == 5000
autoConfirmScans == 2
autoMaxActionsPerMinute == 20
cooldownAfterClick == 1000
rateResetInterval == 60000

\* one model tick of the controller is the click cooldown
AutoTick == cooldownAfterClick
AutoCooldownTicks == cooldownAfterClick \div AutoTick
AutoPollTicks == autoPollInterval \div AutoTick
AutoResetTicks == rateResetInterval \div AutoTick

autoClickPatterns ==
  <<"Continue", "Keep", "Allow", "Proceed", "Yes", "Run", "OK",
    "Accept", "Confirm", "Submit", "Next", "Approve", "Allow and Review">>

\* agent.find: wordText.toLowerCase().includes(search.toLowerCase()), for
\* the word texts the model feeds in: the patterns each text contains
ContainedPatterns(text) ==
  CASE text = "Continue"  -> {"Continue"}
    [] text = "CONTINUE"  -> {"Continue"}
    [] text = "Continued" -> {"Continue"}
    [] text = "Keep"      -> {"Keep"}
    [] text = "Allow"     -> {"Allow"}
    [] text = "Allowed"   -> {"Allow"}
    [] text = "Yes"       -> {"Yes"}
    [] text = "OK"        -> {"OK"}
    [] text = "Books"     -> {"OK"}
    [] text = "Run"       -> {"Run"}
    [] text = "Accept"    -> {"Accept"}
    [] text = "Proceed"   -> {"Proceed"}
    [] OTHER              -> {}

\* D0TAgent.find(text) on the words of the last see()
find(words, text) == SelectSeq(words, LAMBDA w : text \in ContainedPatterns(w.text))

AgentWord(t, x, y) == [text |-> t, x |-> x, y |-> y]

\* the loop over autoClickPatterns in scanAndClick: the first pattern with a
\* match and its first match, Null when no pattern matches
FirstMatch(patterns, words) ==
  IF \E i \in 1..Len(patterns) : Len(find(words, patterns[i])) > 0
  THEN LET i == CHOOSE k \in 1..Len(patterns) :
                  /\ Len(find(words, patterns[k])) > 0
                  /\ \A j \in 1..(k-1) : Len(find(words, patterns[j])) = 0
           m == find(words, patterns[i])[1]
       IN  Some([text |-> patterns[i], x |-> m.x, y |-> m.y])
  ELSE Null

Abs(v) == IF v < 0 THEN 0 - v ELSE v

\* state.pendingButton === pattern && |pendingPos - match| < 50 on both axes
SamePending(st, m) ==
  /\ st.pendingButton = Some(m.text)
  /\ Abs(st.pendingPos[1].x - m.x) < 50
  /\ Abs(st.pendingPos[1].y - m.y) < 50

AutoConfirmed(st) == st.pendingCount >= autoConfirmScans

AutoResetPending(st) ==
  [st EXCEPT !.pendingButton = Null, !.pendingCount = 0, !.pendingPos = Null]

\* the confirmation step of scanAndClick for the match m
AutoSighting(st, m) ==
  IF SamePending(st, m)
  THEN [st EXCEPT !.pendingCount = @ + 1]
  ELSE [st EXCEPT !.pendingButton = Some(m.text), !.pendingCount = 1,
                  !.pendingPos = Some([x |-> m.x, y |-> m.y])]

\* scanAndClick's early returns: rate limiting, then the click cooldown
AutoRateLimited(st) == st.actionsThisMinute >= autoMaxActionsPerMinute
AutoCoolingDown(sinceAction) == sinceAction < AutoCooldownTicks

\* clickAt after agent.click resolved
clickAt(st) ==
  [st EXCEPT !.actionsThisMinute = @ + 1, !.totalActions = @ + 1,
             !.session.totalClicks = @ + 1]

SetKey(f, k, v) == [q \in DOMAIN f \cup {k} |-> IF q = k THEN v ELSE f[q]]
GetOr(f, k, default) == IF k \in DOMAIN f THEN f[k] ELSE default

\* logAction: push, keep the last 250 of more than 500
logAction(st, entry) ==
  LET pushed == Append(st.session.clickHistory, entry)
  IN  [st EXCEPT !.session.clickHistory =
         IF Len(pushed) > 500 THEN SubSeq(pushed, Len(pushed) - 249, Len(pushed))
         ELSE pushed]

\* scanAndClick after `await clickAt` returned: learn, count, log, reset
AutoCommitClick(st, m) ==
  LET clicked == clickAt(st)
      learned == [clicked EXCEPT
        !.session.learnedPositions = SetKey(@, m.text,
            [x |-> m.x, y |-> m.y,
             clickCount |-> GetOr(@, m.text, [clickCount |-> 0]).clickCount + 1]),
        !.session.successfulPatterns = SetKey(@, m.text, GetOr(@, m.text, 0) + 1)]
  IN  AutoResetPending(logAction(learned,
        [action |-> "click", pattern |-> m.text, x |-> m.x, y |-> m.y]))

(***************************************************************************)
(* smart-auto.js: configuration and the smart click logic.  Time is        *)
(* counted in ticks of the one-second sleep after a click; a timestamp is  *)
(* kept as the ticks elapsed since it was taken, up to the largest value   *)
(* any comparison of the code can tell from a larger one.                  *)
(***************************************************************************)
smartPollInterval == 3000
buttonCooldown == 10000
loopThreshold == 3
loopWindow == 30000
loopRadius == 50
sleepAfterClick == 1000
recentClicksMax == 20
recentClicksKept == 10

SmartTick == sleepAfterClick
SmartPollTicks == smartPollInterval \div SmartTick
SmartCooldownTicks == buttonCooldown \div SmartTick
SmartWindowTicks == loopWindow \div SmartTick
SmartSleepTicks == sleepAfterClick \div SmartTick

buttons == <<"Allow", "Continue", "Keep", "Yes", "OK", "Run", "Proceed", "Accept">>

\* mutant: the cooldown is over one tick early
isOnCooldownShort(st, button) ==
  /\ button \in DOMAIN st.lastClickTime
  /\ st.lastClickTime[button] < SmartCooldownTicks - 1

isOnCooldown(st, button) ==
  /\ button \in DOMAIN st.lastClickTime
  /\ st.lastClickTime[button] < SmartCooldownTicks

\* the recent clicks isLoopPosition counts for (x, y)
NearClicks(st, x, y) ==
  Cardinality({i \in 1..Len(st.recentClicks) :
     /\ Abs(st.recentClicks[i].x - x) < loopRadius
     /\ Abs(st.recentClicks[i].y - y) < loopRadius
     /\ st.recentClicks[i].time < SmartWindowTicks})

\* mutant: one more click is needed before a position counts as a loop
isLoopPositionLate(st, x, y) == NearClicks(st, x, y) > loopThreshold

isLoopPosition(st, x, y) == NearClicks(st, x, y) >= loopThreshold

\* mutant: the truncation keeps the oldest entries, slice(0, 10)
recordClickKeepsOldest(st, button, x, y) ==
  LET pushed == Append(st.recentClicks, [x |-> x, y |-> y, time |-> 0, button |-> button])
  IN  [st EXCEPT
         !.lastClickTime = SetKey(@, button, 0),
         !.recentClicks = IF Len(pushed) > recentClicksMax
                          THEN SubSeq(pushed, 1, recentClicksKept)
                          ELSE pushed,
         !.learned = SetKey(@, button, [x |-> x, y |-> y]),
         !.totalClicks = @ + 1]

recordClick(st, button, x, y) ==
  LET pushed == Append(st.recentClicks, [x |-> x, y |-> y, time |-> 0, button |-> button])
  IN  [st EXCEPT
         !.lastClickTime = SetKey(@, button, 0),
         !.recentClicks = IF Len(pushed) > recentClicksMax
                          THEN SubSeq(pushed, Len(pushed) - recentClicksKept + 1, Len(pushed))
                          ELSE pushed,
         !.learned = SetKey(@, button, [x |-> x, y |-> y]),
         !.totalClicks = @ + 1]

\* for every button of CONFIG.buttons that agent.find matches, in the order of
\* CONFIG.buttons, its first match
ButtonTargets(words) ==
  LET hit(i) == find(words, buttons[i])
      idx == SelectSeq([i \in 1..Len(buttons) |-> i], LAMBDA i : Len(hit(i)) > 0)
  IN  [k \in 1..Len(idx) |->
         [button |-> buttons[idx[k]], x |-> hit(idx[k])[1].x, y |-> hit(idx[k])[1].y]]

\* what the loop of smartScan finds for one target: the ticks since its
\* button was clicked (Null: never), the recent clicks near it, the outcome
ButtonCheck(st, t, outcome) ==
  [button |-> t.button, x |-> t.x, y |-> t.y,
   since |-> IF t.button \in DOMAIN st.lastClickTime
             THEN Some(st.lastClickTime[t.button]) ELSE Null,
   near |-> NearClicks(st, t.x, t.y),
   outcome |-> outcome]

\* smartScan's `for (const button of CONFIG.buttons)` from targets[i] on, up
\* to `await state.agent.click`: the state, the target to click (Null: the
\* loop ran out) and what was found for every target on the screen
RECURSIVE CheckButtons(_, _, _)
CheckButtons(st, targets, i) ==
  IF i > Len(targets) THEN [st |-> st, target |-> Null, checks |-> <<>>]
  ELSE LET t == targets[i]
       IN  IF isOnCooldown(st, t.button)
           THEN LET r == CheckButtons(st, targets, i + 1)
                IN  [r EXCEPT !.checks = <<ButtonCheck(st, t, "cooldown")>> \o @]
           ELSE IF isLoopPosition(st, t.x, t.y)
           THEN LET r == CheckButtons([st EXCEPT !.loopsAvoided = @ + 1], targets, i + 1)
                IN  [r EXCEPT !.checks = <<ButtonCheck(st, t, "loop")>> \o @]
           ELSE [st |-> st, target |-> Some(t),
                 checks |-> <<ButtonCheck(st, t, "click")>> \o
                            [k \in 1..(Len(targets) - i) |->
                               ButtonCheck(st, targets[i + k], "unreached")]]

\* one tick passes for every timestamp of the state
SmartAge(st) ==
  [st EXCEPT
     !.lastClickTime = [b \in DOMAIN @ |->
        IF @[b] < SmartCooldownTicks THEN @[b] + 1 ELSE @[b]],
     !.recentClicks = [i \in DOMAIN @ |->
        [@[i] EXCEPT !.time = IF @ < SmartWindowTicks THEN @ + 1 ELSE @]]]

(***************************************************************************)
(* gateway.js: the task system and the direct client actions.  A task is   *)
(* known by its place in the order of arrival; its actions are counted,    *)
(* not told apart.                                                         *)
(***************************************************************************)
TaskPriorities == {1, 3, 5}

\* the `actions` of a task payload: missing, or a list of MaxActions actions
TaskActions == {Null, Some(MaxActions)}

\* handleTask's taskItem; invoked and applied count the actions agent.execute
\* has started and the ones that resolved, thrownAt remembers which one threw
taskItem(priority, actions) ==
  [priority |-> priority, actions |-> actions, status |-> "queued", error |-> Null,
   invoked |-> 0, applied |-> 0, thrownAt |-> Null]

\* mutant: the queue is left in arrival order
sortTaskQueueNot(queue, tasks) == queue

\* state.taskQueue.sort((a, b) => b.priority - a.priority)
sortTaskQueue(queue, tasks) == StableSortBy(queue, LAMBDA id : 0 - tasks[id].priority)

\* mutant: a task of higher priority than the running one takes its place,
\* and the running one goes back into the queue
enqueuePreempting(st, tasks, id) ==
  LET cur == st.currentTask
  IN  IF cur # Null /\ tasks[cur[1]].status = "running"
         /\ tasks[cur[1]].priority < tasks[id].priority
      THEN [st EXCEPT !.tasks = [tasks EXCEPT ![cur[1]].status = "queued"],
                      !.taskQueue = sortTaskQueue(Append(Append(@, id), cur[1]), tasks),
                      !.currentTask = Null]
      ELSE [st EXCEPT !.tasks = tasks,
                      !.taskQueue = sortTaskQueue(Append(@, id), tasks)]

\* handleTask: state.taskQueue.push(taskItem) and the sort
enqueue(st, tasks, id) ==
  [st EXCEPT !.tasks = tasks, !.taskQueue = sortTaskQueue(Append(@, id), tasks)]

\* mutant: handleTask starts the queue whether or not a task is current
BusyNever(st) == FALSE

\* handleTask: `if (!state.currentTask)` is false
Busy(st) == st.currentTask # Null

\* mutant: the task started is read from the head of the queue and left there
processTaskQueueKeepsHead(st) ==
  IF Len(st.taskQueue) = 0
  THEN [st |-> [st EXCEPT !.currentTask = Null], started |-> Null]
  ELSE LET id == Head(st.taskQueue)
       IN  [st |-> [st EXCEPT !.currentTask = Some(id),
                              !.tasks[id].status = "running"],
            started |-> Some(id)]

\* processTaskQueue up to `await ensureAgent()`: the state, and the task it
\* started (Null when the queue was empty)
processTaskQueue(st) ==
  IF Len(st.taskQueue) = 0
  THEN [st |-> [st EXCEPT !.currentTask = Null], started |-> Null]
  ELSE LET id == Head(st.taskQueue)
       IN  [st |-> [st EXCEPT !.taskQueue = Tail(@), !.currentTask = Some(id),
                              !.tasks[id].status = "running"],
            started |-> Some(id)]

\* the run of agent.execute that processTaskQueue awaits: the task and the
\* action in flight (0: none yet, ensureAgent is awaited)
Run(id) == [task |-> id, step |-> 0]

\* the actions of task t, 0 when they are missing
ActionCount(t) == IF t.actions = Null THEN 0 ELSE t.actions[1]

\* mutant: a thrown action undoes what the earlier actions of its task did
AfterThrowRolledBack(t, k) ==
  [t EXCEPT !.status = "failed", !.error = Some(k), !.thrownAt = Some(k), !.applied = 0]

\* processTaskQueue's catch block for the task whose k-th action threw; the
\* error's message is told by k (0: `for ... of undefined`)
AfterThrow(t, k) ==
  [t EXCEPT !.status = "failed", !.error = Some(k), !.thrownAt = Some(k)]

\* the continuation of processTaskQueue after the try block: status written
\* on state.currentTask
Settle(st, ok, k) ==
  IF st.currentTask = Null THEN st
  ELSE LET cur == st.currentTask[1]
       IN  IF ok THEN [st EXCEPT !.tasks[cur].status = "completed"]
           ELSE [st EXCEPT !.tasks[cur] = AfterThrow(@, k)]

(***************************************************************************)
(* Variables.                                                              *)
(***************************************************************************)
VARIABLES
  prog,            \* which program this behaviour runs
  ghost,           \* ghost.js: the state object
  ghostPc,         \* "timer": setTimeout(ghostLoop) pending, "ocr": awaiting ocr()
  ghostLoopAge,    \* ticks since the pending loop timer was set
  ghostDecTimers,  \* ages (ticks) of the pending 60 s decrement timers
  ghostClicks,     \* ages (ticks) of the clicks committed in the trailing 60 s
  ghostLog,        \* the last LogDepth finished cycles, the latest last
  ghostSight,      \* in a run that keeps it: what the cycle last finished was
                   \* given, the buttons findButtons found and the stuck
                   \* detection's fields as decide met them
  ghostBudget,     \* scan cycles left (-1: unbounded)
  ghostEnv,        \* the environment of the run: the screens the recogniser may
                   \* return, whether screenshot and click may fail, and by how
                   \* many ticks a due loop timer may be late
  auto,            \* autonomous.js: the state object
  autoCalls,       \* where mainLoop and a voice-started scanAndClick stand
  autoSinceAction, \* ticks since state.lastAction, up to AutoCooldownTicks
  autoResetAge,    \* ticks since the rate-limiter interval last fired
  autoLog,         \* the last scanAndClick calls that reached a result
  autoBudget,      \* scanAndClick calls left
  autoThrew,       \* whether the last agent.click awaited by scanAndClick threw
  autoCmdBudget,   \* gateway click commands left
  autoClicked,     \* clicks performed, by any path, since the rate limiter's
                   \* interval last fired (or since the start)
  smart,           \* smart-auto.js: the state object
  smartPc,         \* where the smartScan chain stands
  smartAge,        \* ticks spent in the current timer, await or sleep
  smartTarget,     \* the target of the click being awaited
  smartLog,        \* what the last scan found for the targets on screen
  smartBudget,     \* scans left
  smartRecorded,   \* every click recordClick was called for, oldest first
  gw,              \* gateway.js: the state object
  gwRuns,          \* the processTaskQueue calls awaiting agent.execute
  gwTimers,        \* pending 100 ms continuation timers
  gwOps,           \* the bag of handlers of direct actions standing at an await
  gwStarted,       \* the tasks in the order they were started, each with
                   \* the tasks that were left queued at that moment
  gwEvents,        \* for every task, the task events sent about it, in order
  gwSent,          \* the last message sent: a reply to one client or a
                   \* broadcast to the clients connected
  gwChildren,      \* the autonomous processes spawned, by their state
  gwLastLearned,   \* per text, the position last written to learnedPositions
                   \* and the handler that wrote it
  gwFile,          \* the session file: absent, or what saveSession last wrote
  gwTaskBudget,    \* task messages left
  gwSockets,       \* the sockets that may connect in this run
  gwOpBudget,      \* direct client actions left
  gwRestartBudget, \* restarts of the gateway left
  gwMalformed,     \* the malformed message last received: its sender, what
                   \* was wrong with it, what the sender was sent in reply and
                   \* whether the sender was left among the clients
  gwBadBudget,     \* malformed messages left
  sensor,          \* timeout-sensor.js: the state object
  sensorPc,        \* "timer": setTimeout(sensorLoop) pending, "ocr": awaiting
                   \* findTimeoutButton, "exited": after SIGINT
  sensorResume,    \* the pending cooldown timer: absent, or the loop timers
                   \* that fired since it was set
  sensorFrame,     \* the hash of the frame last hashed, if any
  sensorRun,       \* how many frames in a row, ending at the frame last
                   \* taken, had the hash of the frame before them (a frame
                   \* that cannot be hashed has not)
  sensorLog,       \* what the last cycle of sensorLoop did
  sensorSince,     \* the loop timers that have fired since the last click, if any
  sensorBudget,    \* cycles left
  main,            \* main.js: the state object
  mainPc,          \* "loading": before app.whenReady, "ready", "quit"
  mainInterval,    \* whether ghostInterval holds a timer
  mainScans,       \* ghostScan calls awaiting vision.readScreen
  mainMouse,       \* the last call of mouseMove or mouseClick: who called,
                   \* the mode at the call, whether input was injected and
                   \* what the call returned
  mainBudget       \* events left

ghostVars == <<ghost, ghostPc, ghostLoopAge, ghostDecTimers, ghostClicks, ghostLog, ghostSight,
               ghostBudget, ghostEnv>>

autoVars == <<auto, autoCalls, autoSinceAction, autoResetAge, autoLog, autoThrew,
              autoBudget, autoCmdBudget, autoClicked>>

smartVars == <<smart, smartPc, smartAge, smartTarget, smartLog, smartBudget,
              smartRecorded>>

gwVars == <<gw, gwRuns, gwTimers, gwOps, gwStarted, gwEvents, gwSent, gwChildren, gwLastLearned,
           gwFile, gwSockets, gwTaskBudget, gwOpBudget, gwRestartBudget,
           gwMalformed, gwBadBudget>>

sensorVars == <<sensor, sensorPc, sensorResume, sensorFrame, sensorRun, sensorLog,
               sensorSince, sensorBudget>>

mainVars == <<main, mainPc, mainInterval, mainScans, mainMouse, mainBudget>>

vars == <<prog, ghostVars, autoVars, smartVars, gwVars, sensorVars, mainVars>>

\* what the actions of one program leave alone
notGhost == <<prog, autoVars, smartVars, gwVars, sensorVars, mainVars>>
notAuto == <<prog, ghostVars, smartVars, gwVars, sensorVars, mainVars>>
notSmart == <<prog, ghostVars, autoVars, gwVars, sensorVars, mainVars>>
notGateway == <<prog, ghostVars, autoVars, smartVars, sensorVars, mainVars>>
notSensor == <<prog, ghostVars, autoVars, smartVars, gwVars, mainVars>>
notMain == <<prog, ghostVars, autoVars, smartVars, gwVars, sensorVars>>

(***************************************************************************)
(* Ghost: recognised screens.                                              *)
(***************************************************************************)
RichWords ==
  { Word("Continue", 1300, 700, 95),      \* inline prompt, bottom right
    Word("continue.", 1310, 705, 80),     \* same 50-pixel bucket as (1300,700)
    Word("Continue", 1340, 700, 90),      \* next bucket
    Word("Allow", 600, 500, 95),          \* centred dialog
    Word("Allow", 1300, 600, 60),         \* bottom right
    Word("Keep", 600, 500, 85),           \* dialog position, confidence too low
    Word("Continue", 300, 200, 99),       \* chat history
    Word("Continued", 1300, 700, 95),     \* no pattern
    Word("Yes", 1250, 650, 40) }          \* unreadable

RateWords ==
  { Word("Continue", 1300, 700, 95),
    Word("Allow", 1300, 600, 95) }

\* words for the region filters, the priorities and the stuck detection
DecideWords ==
  { Word("Continue", 1300, 700, 95),      \* bottom right
    Word("Continue", 1340, 700, 90),      \* bottom right, read less well
    Word("Allow", 1300, 600, 60),         \* bottom right, read badly
    Word("Allow", 600, 500, 95),          \* centred dialog
    Word("Keep", 600, 500, 85),           \* dialog position, confidence too low
    Word("Continue", 600, 520, 95),       \* dialog position, no dialog button
    Word("Continue", 300, 200, 99) }      \* chat history

RichScreens == DistinctSeqs(RichWords, MaxWords)
RateScreens == DistinctSeqs(RateWords, 1)
DecideScreens == DistinctSeqs(DecideWords, MaxWords)

\* what decide can be given: Candidates(words) of every screen of a pool
RichCandidates == {Candidates(w) : w \in RichScreens}
RateCandidates == {Candidates(w) : w \in RateScreens}
\* the same with the buttons findButtons returned, for the run that keeps them
DecideCandidates ==
  {[found |-> Candidates(w).found, buttons |-> Candidates(w).buttons,
    all |-> findButtons(w)] : w \in DecideScreens}

ScreenCandidates(pool) ==
  CASE pool = "rich" -> RichCandidates
    [] pool = "rate" -> RateCandidates
    [] pool = "decide" -> DecideCandidates

\* what a run that keeps it remembers of a cycle
Sight(st, cand) ==
  IF "all" \in DOMAIN cand
  THEN Some([all |-> cand.all, sameButtonCount |-> st.sameButtonCount,
             lastClickedButton |-> st.lastClickedButton])
  ELSE Null

(***************************************************************************)
(* Ghost: state and actions.                                               *)
(***************************************************************************)
LogDepth == confirmScans

GhostState0 ==
  [actionsThisMinute |-> 0, lastClickedButton |-> Null, lastClickedPos |-> Null,
   sameButtonCount |-> 0, pendingButton |-> Null, pendingCount |-> 0]

PushLog(log, entry) ==
  IF Len(log) < LogDepth THEN Append(log, entry) ELSE Append(Tail(log), entry)

\* what one finished cycle did: what recognition gave it ("failed": ocr
\* caught an error, "nothing": no words, "words"; "noshot": no screenshot to
\* recognise), the decision, the candidate the confirmation
\* step looked at, its sighting count, whether the click went through, and
\* the pending confirmation and rate counter the cycle started from
CycleEntry(before, seen, d, clicked) ==
  [seen |-> seen,
   action |-> d.action, x |-> d.x, y |-> d.y, reason |-> d.reason,
   selected |-> d.selected, count |-> d.count, clicked |-> clicked,
   pendingBefore |-> before.pendingButton, rateBefore |-> before.actionsThisMinute]

NoScreenshot(before) ==
  [seen |-> "noshot",
   action |-> "none", x |-> 0, y |-> 0, reason |-> "Screenshot failed",
   selected |-> Null, count |-> 0, clicked |-> FALSE,
   pendingBefore |-> before.pendingButton, rateBefore |-> before.actionsThisMinute]

GhostInitVars(env, budget) ==
  /\ ghost = GhostState0
  /\ ghostPc = "timer"
  /\ ghostLoopAge = GhostPollTicks      \* start() calls ghostLoop at once
  /\ ghostDecTimers = {}
  /\ ghostClicks = {}
  /\ ghostLog = <<>>
  /\ ghostSight = Null
  /\ ghostBudget = budget
  /\ ghostEnv = env

\* click(x, y): the counter after a click that went through
click(st) == [st EXCEPT !.actionsThisMinute = @ + 1]

\* the 60 s timer of ghostLoop
DecrementRate(st) == [st EXCEPT !.actionsThisMinute = Max(0, @ - 1)]

\* ghostLoop up to `await ocr(imgPath)`
GhostScan ==
  /\ prog = "ghost"
  /\ ghostPc = "timer"
  /\ ghostLoopAge >= GhostPollTicks
  /\ ghostBudget # 0
  /\ ghost.sameButtonCount < MaxSameButton
  /\ ghostBudget' = IF ghostBudget > 0 THEN ghostBudget - 1 ELSE ghostBudget
  /\ \E shotOk \in (IF ghostEnv.faults THEN BOOLEAN ELSE {TRUE}) :
       IF shotOk
       THEN /\ ghostPc' = "ocr"
            /\ UNCHANGED <<ghostLoopAge, ghostLog>>
       ELSE /\ ghostPc' = "timer"
            /\ ghostLoopAge' = 0
            /\ ghostLog' = PushLog(ghostLog, NoScreenshot(ghost))
  /\ ghostSight' = Null
  /\ UNCHANGED <<ghost, ghostDecTimers, ghostClicks, ghostEnv, notGhost>>

\* what recognition can give a cycle: an error inside ocr, no words, words
Sights(faults) == IF faults THEN {"failed", "nothing", "words"} ELSE {"words"}

\* ocr(imgPath), told by the candidates of its words: when recognize or the
\* worker throws, the catch blocks return { text: '', words: [] }
ocrLetsThrough(seen, cand) == cand

ocr(seen, cand) == IF seen = "failed" THEN Candidates(<<>>) ELSE cand

\* ghostLoop from the OCR result on: decide, click, the two timers
GhostDecide ==
  /\ prog = "ghost"
  /\ ghostPc = "ocr"
  /\ \E cand \in ScreenCandidates(ghostEnv.pool), seen \in Sights(ghostEnv.faults),
        clickOk \in (IF ghostEnv.faults THEN BOOLEAN ELSE {TRUE}) :
       LET d == decide(ghost, ocr(seen, cand))
           clicked == d.action = "click" /\ clickOk
       IN  /\ seen = "nothing" => cand = Candidates(<<>>)
           /\ ghost' = IF clicked THEN click(d.st) ELSE d.st
           /\ ghostClicks' = IF clicked THEN ghostClicks \cup {0} ELSE ghostClicks
           /\ ghostLog' = PushLog(ghostLog, CycleEntry(ghost, seen, d, clicked))
           /\ ghostSight' = Sight(ghost, cand)
  /\ ghostDecTimers' = ghostDecTimers \cup {0}
  /\ ghostPc' = "timer"
  /\ ghostLoopAge' = 0
  /\ UNCHANGED <<ghostBudget, ghostEnv, notGhost>>

\* setTimeout(() => { actionsThisMinute = Math.max(0, actionsThisMinute - 1) }, 60000)
GhostDecrement ==
  /\ prog = "ghost"
  /\ \E age \in ghostDecTimers :
       /\ age >= GhostRateTicks
       /\ ghostDecTimers' = ghostDecTimers \ {age}
  /\ ghost' = DecrementRate(ghost)
  /\ UNCHANGED <<ghostPc, ghostLoopAge, ghostClicks, ghostLog, ghostSight, ghostBudget,
                 ghostEnv, notGhost>>

\* one poll interval passes; due timers fire first
GhostTime ==
  /\ prog = "ghost"
  /\ ghostPc = "timer"
  /\ ghostBudget = 0 \/ ghostLoopAge < GhostPollTicks + ghostEnv.late
  /\ \A age \in ghostDecTimers : age < GhostRateTicks
  /\ ghostLoopAge' = IF ghostBudget = 0 THEN ghostLoopAge ELSE ghostLoopAge + 1
  /\ ghostDecTimers' = {age + 1 : age \in ghostDecTimers}
  /\ ghostClicks' = {age + 1 : age \in {a \in ghostClicks : a + 1 < GhostRateTicks}}
  /\ UNCHANGED <<ghost, ghostPc, ghostLog, ghostSight, ghostBudget, ghostEnv, notGhost>>

NextGhost == GhostScan \/ GhostDecide \/ GhostDecrement \/ GhostTime

(***************************************************************************)
(* Autonomous controller: recognised screens, state and actions.           *)
(***************************************************************************)
AutoWords ==
  { AgentWord("Continue", 1300, 700),
    AgentWord("CONTINUE", 1320, 720),    \* within 50 pixels of (1300,700)
    AgentWord("Continued", 1400, 700),   \* contains the pattern, 100 pixels off
    AgentWord("Keep", 600, 500),
    AgentWord("hello", 100, 100) }       \* no pattern

AutoScreens == DistinctSeqs(AutoWords, MaxWords)

\* what scanAndClick can find: FirstMatch of every screen
AutoMatches == {FirstMatch(autoClickPatterns, w) : w \in AutoScreens}

Callers == {"main", "voice"}

AutoState0 ==
  [running |-> TRUE, actionsThisMinute |-> 0, totalActions |-> 0,
   pendingButton |-> Null, pendingCount |-> 0, pendingPos |-> Null,
   session |-> [learnedPositions |-> <<>>, clickHistory |-> <<>>,
                totalClicks |-> 0, successfulPatterns |-> <<>>]]

Call(pc, m) == [pc |-> pc, m |-> m, age |-> 0]

\* where a caller stands once its scanAndClick has returned or thrown:
\* mainLoop goes to sleep(pollInterval), a voice command is done
Returned(c) == IF c = "main" THEN Call("sleep", Null) ELSE Call("idle", Null)

AutoEntry(action, sel, count) == [action |-> action, selected |-> sel, count |-> count]

PushAutoLog(log, entry) ==
  IF Len(log) < autoConfirmScans THEN Append(log, entry) ELSE Append(Tail(log), entry)

AutoInitVars(scans, cmds) ==
  /\ auto = AutoState0
  /\ autoCalls = [c \in Callers |-> IF c = "main" THEN Call("loop", Null) ELSE Call("idle", Null)]
  /\ autoSinceAction = AutoCooldownTicks     \* state.lastAction = 0
  /\ autoResetAge = 0
  /\ autoLog = <<>>
  /\ autoThrew = FALSE
  /\ autoClicked = 0
  /\ autoBudget = scans
  /\ autoCmdBudget = cmds

\* scanAndClick up to `await state.agent.see()`, called by c
ScanStart(c) ==
  /\ autoBudget > 0
  /\ autoBudget' = autoBudget - 1
  /\ IF AutoRateLimited(auto) \/ AutoCoolingDown(autoSinceAction)
     THEN /\ autoCalls' = [autoCalls EXCEPT ![c] = Returned(c)]
          /\ autoLog' = PushAutoLog(autoLog, AutoEntry("early", Null, 0))
     ELSE /\ autoCalls' = [autoCalls EXCEPT ![c] = Call("see", Null)]
          /\ UNCHANGED autoLog
  /\ UNCHANGED <<notAuto, autoThrew, auto, autoSinceAction, autoResetAge, autoCmdBudget, autoClicked>>

\* mainLoop: `while (state.running)`
LoopGoesOnRegardless(st) == TRUE

LoopGoesOn(st) == st.running

\* mainLoop: the test of the while loop and the call of scanAndClick
AutoMainLoop ==
  /\ prog = "auto"
  /\ autoCalls["main"].pc = "loop"
  /\ IF LoopGoesOn(auto)
     THEN ScanStart("main")
     ELSE /\ autoCalls' = [autoCalls EXCEPT !["main"] = Call("stopped", Null)]
          /\ UNCHANGED <<notAuto, autoThrew, auto, autoSinceAction, autoResetAge, autoLog,
                         autoBudget, autoCmdBudget, autoClicked>>

\* mainLoop: sleep(pollInterval) is over
AutoSleepDone ==
  /\ prog = "auto"
  /\ autoCalls["main"].pc = "sleep"
  /\ autoCalls["main"].age >= AutoPollTicks
  /\ autoCalls' = [autoCalls EXCEPT !["main"] = Call("loop", Null)]
  /\ UNCHANGED <<notAuto, autoThrew, auto, autoSinceAction, autoResetAge, autoLog,
                 autoBudget, autoCmdBudget, autoClicked>>

\* handleVoiceCommand("dot click"): scanAndClick(), not awaited
AutoVoiceClick ==
  /\ prog = "auto"
  /\ autoCalls["voice"].pc = "idle"
  /\ ScanStart("voice")

\* scanAndClick from the result of see() to `await clickAt` or its return
AutoSeeDone ==
  /\ prog = "auto"
  /\ \E c \in Callers :
       /\ autoCalls[c].pc = "see"
       /\ \/ \* see() rejects: scanAndClick throws, nothing is touched
             /\ autoCalls' = [autoCalls EXCEPT ![c] = Returned(c)]
             /\ autoLog' = PushAutoLog(autoLog, AutoEntry("error", Null, 0))
             /\ UNCHANGED auto
          \/ \E found \in AutoMatches :
               IF found = Null
               THEN /\ auto' = AutoResetPending(auto)
                    /\ autoCalls' = [autoCalls EXCEPT ![c] = Returned(c)]
                    /\ autoLog' = PushAutoLog(autoLog, AutoEntry("wait", Null, 0))
               ELSE LET m == found[1]
                        seen == AutoSighting(auto, m)
                        confirmed == SamePending(auto, m) /\ AutoConfirmed(seen)
                    IN  /\ auto' = seen
                        /\ autoCalls' = [autoCalls EXCEPT ![c] =
                              IF confirmed THEN Call("click", found) ELSE Returned(c)]
                        /\ autoLog' = PushAutoLog(autoLog,
                              AutoEntry(IF confirmed THEN "click" ELSE "wait",
                                        found, seen.pendingCount))
  /\ UNCHANGED <<notAuto, autoThrew, autoSinceAction, autoResetAge, autoBudget,
                 autoCmdBudget, autoClicked>>

\* clickAt when agent.click rejects: the lines after the await are not run,
\* and scanAndClick throws at its `await clickAt`
ClickThrewCounted(st) == clickAt(st)

ClickThrew(st) == st

\* scanAndClick from the result of agent.click on
AutoClickDone ==
  /\ prog = "auto"
  /\ \E c \in Callers, ok \in BOOLEAN :
       /\ autoCalls[c].pc = "click"
       /\ autoCalls' = [autoCalls EXCEPT ![c] = Returned(c)]
       /\ autoThrew' = ~ok
       /\ IF ok
          THEN /\ auto' = AutoCommitClick(auto, autoCalls[c].m[1])
               /\ autoSinceAction' = 0
               /\ autoClicked' = autoClicked + 1
          ELSE /\ auto' = ClickThrew(auto)
               /\ UNCHANGED <<autoSinceAction, autoClicked>>
  /\ UNCHANGED <<notAuto, autoResetAge, autoLog, autoBudget, autoCmdBudget>>

\* handleGatewayMessage: command click -> clickAt(x, y)
AutoCmdClick ==
  /\ prog = "auto"
  /\ autoCmdBudget > 0
  /\ autoCmdBudget' = autoCmdBudget - 1
  /\ \E ok \in BOOLEAN :
       IF ok
       THEN /\ auto' = clickAt(auto) /\ autoSinceAction' = 0
            /\ autoClicked' = autoClicked + 1
       ELSE UNCHANGED <<auto, autoSinceAction, autoClicked>>
  /\ UNCHANGED <<notAuto, autoThrew, autoCalls, autoResetAge, autoLog, autoBudget>>

\* "dot stop", the gateway's stop command, or the SIGINT that the gateway's
\* stopAutonomousMode sends: state.running = false
AutoStop ==
  /\ prog = "auto"
  /\ auto.running
  /\ auto' = [auto EXCEPT !.running = FALSE]
  /\ UNCHANGED <<notAuto, autoThrew, autoCalls, autoSinceAction, autoResetAge, autoLog,
                 autoBudget, autoCmdBudget, autoClicked>>

\* setInterval(() => { state.actionsThisMinute = 0 }, 60000)
AutoRateReset ==
  /\ prog = "auto"
  /\ autoResetAge >= AutoResetTicks
  /\ autoResetAge' = 0
  /\ auto' = [auto EXCEPT !.actionsThisMinute = 0]
  /\ autoClicked' = 0
  /\ UNCHANGED <<notAuto, autoThrew, autoCalls, autoSinceAction, autoLog, autoBudget,
                 autoCmdBudget>>

\* one tick passes; due timers and finished awaits come first
AutoTime ==
  /\ prog = "auto"
  /\ autoResetAge < AutoResetTicks
  /\ \A c \in Callers :
       /\ autoCalls[c].pc # "loop"
       /\ autoCalls[c].pc = "sleep" => autoCalls[c].age < AutoPollTicks
       /\ autoCalls[c].pc \in {"see", "click"} => autoCalls[c].age < MaxAwaitTicks
  /\ autoResetAge' = autoResetAge + 1
  /\ autoSinceAction' = IF autoSinceAction < AutoCooldownTicks
                        THEN autoSinceAction + 1 ELSE autoSinceAction
  /\ autoCalls' = [c \in Callers |->
        IF autoCalls[c].pc \in {"see", "click", "sleep"}
        THEN [autoCalls[c] EXCEPT !.age = @ + 1] ELSE autoCalls[c]]
  /\ UNCHANGED <<notAuto, autoThrew, auto, autoLog, autoBudget, autoCmdBudget, autoClicked>>

NextAuto ==
  \/ AutoMainLoop \/ AutoSleepDone \/ AutoVoiceClick \/ AutoSeeDone \/ AutoClickDone
  \/ AutoCmdClick \/ AutoStop \/ AutoRateReset \/ AutoTime

(***************************************************************************)
(* smart-auto: recognised screens, state and actions.                      *)
(***************************************************************************)
SmartWords ==
  { AgentWord("Allow", 600, 500),
    AgentWord("Continue", 610, 505),     \* three buttons within 50 pixels
    AgentWord("Keep", 620, 510),
    AgentWord("Allow", 1300, 700),       \* the same button somewhere else
    AgentWord("Yes", 1300, 700) }        \* another button somewhere else

SmartScreens == DistinctSeqs(SmartWords, MaxWords)

SmartTargets == {ButtonTargets(w) : w \in SmartScreens}

SmartState0 ==
  [running |-> TRUE, lastClickTime |-> <<>>, recentClicks |-> <<>>, learned |-> <<>>,
   totalClicks |-> 0, loopsAvoided |-> 0]

\* one scan: what see() gave it ("nothing": no word, every word of the
\* screens followed being a button; "words"), what was found for the targets
\* on screen, by how much
\* loopsAvoided grew, the target sent to agent.click, and, once the click is
\* recorded, how many recent clicks were near it at that moment, and how
\* many clicks the scan has sent to agent.click
ScanEntry(r, before, seen) ==
  [seen |-> seen,
   checks |-> r.checks, avoided |-> r.st.loopsAvoided - before.loopsAvoided,
   target |-> r.target, committedNear |-> Null,
   issued |-> IF r.target = Null THEN 0 ELSE 1]

\* a scan whose see() threw: the catch block, nothing was looked at
FailedScan ==
  [seen |-> "failed", checks |-> <<>>, avoided |-> 0, target |-> Null,
   committedNear |-> Null, issued |-> 0]

SmartInitVars ==
  /\ smart = SmartState0
  /\ smartPc = "timer"
  /\ smartAge = SmartPollTicks        \* start() calls smartScan at once
  /\ smartTarget = Null
  /\ smartLog = <<>>
  /\ smartBudget = MaxSmartScans
  /\ smartRecorded = <<>>

\* a click as the history keeps it
Recorded(t) == [button |-> t.button, x |-> t.x, y |-> t.y]

\* the clicks made before a run that starts with a filled click list: the
\* i-th went to one of three buttons in turn
EarlierButtons ==
  <<[button |-> "Allow", x |-> 600, y |-> 500],
    [button |-> "Keep", x |-> 620, y |-> 510],
    [button |-> "Yes", x |-> 1300, y |-> 700]>>
EarlierClick(i) == EarlierButtons[(i % Len(EarlierButtons)) + 1]

\* the state once loopWindow has passed since st: every timestamp is as old
\* as the state tells ages apart
Aged(st) ==
  [st EXCEPT
     !.lastClickTime = [b \in DOMAIN @ |-> SmartCooldownTicks],
     !.recentClicks = [i \in DOMAIN @ |-> [@[i] EXCEPT !.time = SmartWindowTicks]]]

\* the state object after n clicks, each recorded and long past
RECURSIVE AfterClicks(_)
AfterClicks(n) ==
  IF n = 0 THEN SmartState0
  ELSE LET c == EarlierClick(n)
       IN  CHOOSE r \in {Aged(recordClick(s, c.button, c.x, c.y)) :
                            s \in {AfterClicks(n - 1)}} : TRUE

\* smartScan up to `await state.agent.see()`; the chain ends when a due
\* scan finds state.running false (process.exit comes first in the code)
SmartScan ==
  /\ prog = "smart"
  /\ smartPc = "timer"
  /\ smartAge >= SmartPollTicks
  /\ smartBudget > 0
  /\ smartBudget' = smartBudget - 1
  /\ smartPc' = IF smart.running THEN "see" ELSE "exited"
  /\ smartAge' = 0
  /\ UNCHANGED <<notSmart, smart, smartTarget, smartLog, smartRecorded>>

\* smartScan from the result of see() through the loop over the buttons, up
\* to `await state.agent.click` or to the scheduling of the next scan
SmartSeeDone ==
  /\ prog = "smart"
  /\ smartPc = "see"
  /\ smartAge' = 0
  /\ \/ \* see() rejects: caught, next scan scheduled
        /\ smartPc' = "timer"
        /\ smartLog' = <<FailedScan>>
        /\ UNCHANGED <<smart, smartTarget>>
     \/ \E targets \in SmartTargets :
          LET r == CheckButtons(smart, targets, 1)
          IN  /\ smart' = r.st
              /\ smartTarget' = r.target
              /\ smartPc' = IF r.target = Null THEN "timer" ELSE "click"
              /\ smartLog' = <<ScanEntry(r, smart,
                                         IF targets = <<>> THEN "nothing" ELSE "words")>>
  /\ UNCHANGED <<notSmart, smartBudget, smartRecorded>>

\* smartScan from the result of agent.click: recordClick and the sleep, or
\* the catch block when the click threw
SmartClickDone ==
  /\ prog = "smart"
  /\ smartPc = "click"
  /\ smartAge' = 0
  /\ smartTarget' = Null
  /\ \E ok \in BOOLEAN :
       IF ok
       THEN LET t == smartTarget[1]
            IN  /\ smart' = recordClick(smart, t.button, t.x, t.y)
                /\ smartLog' = [smartLog EXCEPT ![1].committedNear =
                                  Some(NearClicks(smart, t.x, t.y))]
                /\ smartRecorded' = Append(smartRecorded, Recorded(t))
                /\ smartPc' = "sleep"
       ELSE /\ smartPc' = "timer"
            /\ UNCHANGED <<smart, smartLog, smartRecorded>>
  /\ UNCHANGED <<notSmart, smartBudget>>

\* the targets the loop over the buttons still visits after a click and its
\* sleep: none, `break` leaves the loop
RemainingUnreached(checks) ==
  LET rest == SelectSeq(checks, LAMBDA c : c.outcome = "unreached")
  IN  [k \in 1..Len(rest) |->
         [button |-> rest[k].button, x |-> rest[k].x, y |-> rest[k].y]]

Remaining(checks) == <<>>

\* sleep(1000) is over: break, schedule the next scan
SmartSleepDone ==
  /\ prog = "smart"
  /\ smartPc = "sleep"
  /\ smartAge >= SmartSleepTicks
  /\ smartAge' = 0
  /\ LET r == CheckButtons(smart, Remaining(smartLog[1].checks), 1)
     IN  /\ smart' = r.st
         /\ smartTarget' = r.target
         /\ IF r.target = Null
            THEN smartPc' = "timer" /\ UNCHANGED smartLog
            ELSE /\ smartPc' = "click"
                 /\ smartLog' = [smartLog EXCEPT ![1].issued = @ + 1]
  /\ UNCHANGED <<notSmart, smartBudget, smartRecorded>>

\* SIGINT: state.running = false, saveState, process.exit(0)
SmartSigint ==
  /\ prog = "smart"
  /\ smartPc # "exited"
  /\ smart' = [smart EXCEPT !.running = FALSE]
  /\ smartPc' = "exited"
  /\ smartTarget' = Null
  /\ UNCHANGED <<notSmart, smartAge, smartLog, smartBudget, smartRecorded>>

\* one tick passes; due timers and finished awaits come first
SmartTime ==
  /\ prog = "smart"
  /\ smartPc \in {"timer", "see", "click", "sleep"}
  /\ smartPc = "timer" => smartAge < SmartPollTicks
  /\ smartPc = "sleep" => smartAge < SmartSleepTicks
  /\ smartPc \in {"see", "click"} => smartAge < MaxAwaitTicks
  /\ smartAge' = smartAge + 1
  /\ smart' = SmartAge(smart)
  /\ UNCHANGED <<notSmart, smartPc, smartTarget, smartLog, smartBudget, smartRecorded>>

NextSmart ==
  \/ SmartScan \/ SmartSeeDone \/ SmartClickDone \/ SmartSleepDone \/ SmartSigint
  \/ SmartTime

(***************************************************************************)
(* Gateway: state and actions.                                             *)
(***************************************************************************)
\* the direct actions followed: handleSee, handleClick, handleType and
\* handleClickOn, which awaits see() and then the click of the match
\* ("clickOnFound") or of the learned position ("clickOnLearned")
DirectOps == {"see", "click", "clickOn", "type"}

\* the sockets that may connect, the texts clients ask to click (both among
\* the patterns handleSee remembers) and the places a text is recognised at
Clients == {1, 2}
Texts == {"Continue", "Keep"}
Positions == {[x |-> 1300, y |-> 700], [x |-> 600, y |-> 500]}

\* agent.find(text)[0] after a see(): no match, or the first match
Recognised == {Null} \cup {Some(p) : p \in Positions}
NothingSeen == [t \in Texts |-> Null]

\* JSON.stringify(state.session) and JSON.parse of it: the file holds one
\* entry per key of learnedPositions
stringify(st) ==
  {<<t, st.learnedPositions[t][1].x, st.learnedPositions[t][1].y>> :
     t \in {u \in Texts : st.learnedPositions[u] # Null}}

parse(file) ==
  [t \in Texts |->
     IF \E e \in file : e[1] = t
     THEN LET e == CHOOSE e \in file : e[1] = t
          IN  Some([x |-> e[2], y |-> e[3]])
     ELSE Null]

\* loadSession: the parsed file, or a new session when there is none
loadSession(file) ==
  IF file = Null THEN [t \in Texts |-> Null] ELSE parse(file[1])

\* the state object of a gateway started with the given session file
GatewayStart(file) ==
  [clients |-> {},
   taskQueue |-> <<>>, currentTask |-> Null, tasks |-> <<>>,
   learnedPositions |-> loadSession(file),
   autonomousProcess |-> Null,
   stats |-> [totalActions |-> 0, totalClicks |-> 0, totalTypes |-> 0]]

GatewayState0 == GatewayStart(Null)

SuperviseLoad ==
  [tasks |-> 0, ops |-> 0, restarts |-> 0, starts |-> MaxStarts, bad |-> 0,
   sockets |-> Clients]

\* a handler of a direct action standing at an await on the agent: whose
\* message, which await, the text asked for, and for a clickOn past its
\* see() what find returned, what had last been learned and the click made
Handler(client, op, text) ==
  [client |-> client, op |-> op, text |-> text,
   live |-> Null, learned |-> Null, target |-> Null]

\* the runs followed: many tasks, one task beside a direct action, direct
\* actions alone with a restart of the gateway among them, or the
\* supervision of the autonomous process, or malformed messages
GatewayLoads ==
  {[tasks |-> MaxTasks, ops |-> 0, restarts |-> 0, starts |-> 0, bad |-> 0, sockets |-> {1}],
   [tasks |-> 1, ops |-> 1, restarts |-> 0, starts |-> 0, bad |-> 0, sockets |-> {1}],
   [tasks |-> 0, ops |-> MaxDirectOps, restarts |-> MaxRestarts, starts |-> 0,
    bad |-> 0, sockets |-> Clients],
   SuperviseLoad,
   [tasks |-> 0, ops |-> 0, restarts |-> 0, starts |-> 0, bad |-> MaxBadMessages,
    sockets |-> Clients]}

GatewayInitVars(load) ==
  /\ gw = GatewayState0
  /\ gwRuns = {}
  /\ gwTimers = 0
  /\ gwOps = EmptyBag
  /\ gwStarted = <<>>
  /\ gwEvents = <<>>
  /\ gwSent = Null
  /\ gwLastLearned = [t \in Texts |-> Null]
  /\ gwFile = Null
  /\ gwTaskBudget = load.tasks
  /\ gwSockets = load.sockets
  /\ gwChildren = [pid \in 1..load.starts |-> "unborn"]
  /\ gwOpBudget = load.ops
  /\ gwRestartBudget = load.restarts
  /\ gwMalformed = Null
  /\ gwBadBudget = load.bad

\* the reply of the message handler's catch
ErrorReply(client) == [to |-> client, type |-> "error"]

\* broadcast(msg): to every socket of state.clients
Broadcast(st, type) == [toAll |-> st.clients, type |-> type]

\* a task event as the history keeps it: its type, the status of the task
\* object it carries, and whether it went to every client
TaskEvent(type, status, toAll) == [type |-> type, status |-> status, toAll |-> toAll]

\* what a call of processTaskQueue does to the variables, from state st with
\* `sent` the last message sent and `events` the task events sent before the
\* call
CallProcessTaskQueue(st, sent, events) ==
  LET r == processTaskQueue(st)
  IN  /\ gw' = r.st
      /\ IF r.started = Null
         THEN gwSent' = sent /\ gwEvents' = events /\ UNCHANGED <<gwRuns, gwStarted>>
         ELSE /\ gwSent' = Some(Broadcast(st, "taskStarted"))
              /\ gwEvents' = [events EXCEPT ![r.started[1]] =
                    Append(@, TaskEvent("taskStarted", r.st.tasks[r.started[1]].status, TRUE))]
              /\ gwRuns' = gwRuns \cup {Run(r.started[1])}
              /\ gwStarted' = Append(gwStarted,
                    [task |-> r.started[1],
                     queued |-> {r.st.taskQueue[i] : i \in 1..Len(r.st.taskQueue)}])

\* a task message: handleTask.  With `actions` missing, actions.length throws
\* after the push and the sort, and the message handler replies with an error.
GwTask ==
  /\ prog = "gateway"
  /\ gwTaskBudget > 0
  /\ gwTaskBudget' = gwTaskBudget - 1
  /\ \E client \in gw.clients, priority \in TaskPriorities, actions \in TaskActions :
       LET id == Len(gw.tasks) + 1
           tasks == Append(gw.tasks, taskItem(priority, actions))
           queued == enqueue(gw, tasks, id)
           reply == Some(IF actions = Null THEN ErrorReply(client)
                         ELSE [to |-> client, type |-> "taskQueued"])
           events == Append(gwEvents,
                       IF actions = Null THEN <<>>
                       ELSE <<TaskEvent("taskQueued", queued.tasks[id].status, FALSE)>>)
       IN  IF actions = Null \/ Busy(queued)
           THEN /\ gw' = queued /\ gwSent' = reply /\ gwEvents' = events
                /\ UNCHANGED <<gwRuns, gwStarted>>
           ELSE CallProcessTaskQueue(queued, reply, events)
  /\ UNCHANGED <<notGateway, gwTimers, gwOps, gwLastLearned, gwFile, gwOpBudget,
                 gwRestartBudget, gwSockets, gwChildren,
                 gwMalformed, gwBadBudget>>

\* agent.execute: what a run awaits resolves or throws, and the next action
\* is invoked or processTaskQueue goes on to its broadcast and its timer
GwRunStep ==
  /\ prog = "gateway"
  /\ \E run \in gwRuns, ok \in BOOLEAN :
       LET t == gw.tasks[run.task]
           n == ActionCount(t)
           k == run.step
           done == [gw EXCEPT !.tasks[run.task].applied = IF k > 0 THEN @ + 1 ELSE @]
       IN  /\ k = 0 => ok          \* ensureAgent: the agent exists or is made
           /\ IF ok /\ t.actions # Null /\ k < n
              THEN \* action k resolved: invoke action k + 1
                   /\ gw' = [done EXCEPT !.tasks[run.task].invoked = k + 1]
                   /\ gwRuns' = (gwRuns \ {run}) \cup {[run EXCEPT !.step = k + 1]}
                   /\ UNCHANGED <<gwTimers, gwSent, gwEvents>>
              ELSE \* the last action resolved, action k threw, or
                   \* `for (const action of undefined)` threw (told as action 0)
                   /\ gw' = IF ok /\ t.actions # Null
                            THEN Settle(done, TRUE, 0) ELSE Settle(gw, FALSE, k)
                   /\ gwSent' = Some(Broadcast(gw, "taskCompleted"))
                   /\ gwEvents' =
                        IF gw.currentTask = Null THEN gwEvents
                        ELSE [gwEvents EXCEPT ![gw.currentTask[1]] =
                                Append(@, TaskEvent("taskCompleted",
                                            gw'.tasks[gw.currentTask[1]].status, TRUE))]
                   /\ gwRuns' = gwRuns \ {run}
                   /\ gwTimers' = gwTimers + 1
  /\ UNCHANGED <<notGateway, gwOps, gwStarted, gwLastLearned, gwFile, gwTaskBudget,
                 gwOpBudget, gwRestartBudget, gwSockets, gwChildren,
                 gwMalformed, gwBadBudget>>

\* setTimeout(() => processTaskQueue(), 100) fires
GwTimer ==
  /\ prog = "gateway"
  /\ gwTimers > 0
  /\ gwTimers' = gwTimers - 1
  /\ CallProcessTaskQueue(gw, gwSent, gwEvents)
  /\ UNCHANGED <<notGateway, gwOps, gwLastLearned, gwFile,
                 gwTaskBudget, gwOpBudget, gwRestartBudget, gwSockets, gwChildren,
                 gwMalformed, gwBadBudget>>

\* wss.on('connection'): the socket joins state.clients and is welcomed
GwConnect ==
  /\ prog = "gateway"
  /\ \E client \in gwSockets \ gw.clients :
       /\ gw' = [gw EXCEPT !.clients = @ \cup {client}]
       /\ gwSent' = Some([to |-> client, type |-> "welcome"])
  /\ UNCHANGED <<notGateway, gwEvents, gwRuns, gwTimers, gwOps, gwStarted,
                 gwLastLearned, gwFile, gwTaskBudget, gwOpBudget, gwRestartBudget,
                 gwSockets, gwChildren,
                 gwMalformed, gwBadBudget>>

\* ws.on('close'): the socket leaves state.clients
GwClose ==
  /\ prog = "gateway"
  /\ \E client \in gw.clients :
       gw' = [gw EXCEPT !.clients = @ \ {client}]
  /\ UNCHANGED <<notGateway, gwEvents, gwRuns, gwTimers, gwOps, gwStarted, gwSent,
                 gwLastLearned, gwFile, gwTaskBudget, gwOpBudget, gwRestartBudget,
                 gwSockets, gwChildren,
                 gwMalformed, gwBadBudget>>

\* a see, click, clickOn or type message of some client: the handler up to
\* its first await on the agent.  No handler waits for another one.
GwDirect ==
  /\ prog = "gateway"
  /\ gwOpBudget > 0
  /\ gwOpBudget' = gwOpBudget - 1
  /\ \E client \in gw.clients, op \in DirectOps :
       \E text \in IF op = "clickOn" THEN Texts ELSE {""} :
         gwOps' = gwOps (+) SetToBag({Handler(client, op, text)})
  /\ UNCHANGED <<notGateway, gwEvents, gw, gwRuns, gwTimers, gwStarted, gwSent,
                 gwLastLearned, gwFile, gwTaskBudget, gwRestartBudget, gwSockets, gwChildren,
                 gwMalformed, gwBadBudget>>

\* a hotkey or urlBar message of some client, up to the await on the agent
KeyOps == {"hotkey", "urlBar"}

GwDirectKeys ==
  /\ prog = "gateway"
  /\ gwOpBudget > 0
  /\ gwOpBudget' = gwOpBudget - 1
  /\ \E client \in gw.clients, op \in KeyOps :
       gwOps' = gwOps (+) SetToBag({Handler(client, op, "")})
  /\ UNCHANGED <<notGateway, gwEvents, gw, gwRuns, gwTimers, gwStarted, gwSent,
                 gwLastLearned, gwFile, gwTaskBudget, gwRestartBudget, gwSockets, gwChildren,
                 gwMalformed, gwBadBudget>>

\* mutant: an action is counted by its kind only
CountedByKindOnly(st, clicks, types) ==
  [st EXCEPT !.stats.totalClicks = @ + clicks, !.stats.totalTypes = @ + types]

Counted(st, clicks, types) ==
  [st EXCEPT !.stats.totalActions = @ + 1, !.stats.totalClicks = @ + clicks,
             !.stats.totalTypes = @ + types]

\* state.session.learnedPositions[text] = { x, y, seenAt }
Learn(st, text, pos) ==
  [st EXCEPT !.learnedPositions[text] = Some(pos)]

\* handleSee's loop over the patterns: every pattern found is remembered
RECURSIVE LearnSeen(_, _, _)
LearnSeen(st, screen, texts) ==
  IF texts = {} THEN st
  ELSE LET t == CHOOSE t \in texts : TRUE
           rest == LearnSeen(st, screen, texts \ {t})
       IN  IF screen[t] = Null THEN rest ELSE Learn(rest, t, screen[t][1])

\* where handleClickOn goes after see(): the click of the match, the click
\* of the learned position, or the "Not found" reply
AfterClickOnSeeLearnedFirst(st, text, live) ==
  IF st.learnedPositions[text] # Null
  THEN Some([op |-> "clickOnLearned", target |-> st.learnedPositions[text]])
  ELSE IF live # Null THEN Some([op |-> "clickOnFound", target |-> live])
  ELSE Null

AfterClickOnSee(st, text, live) ==
  IF live # Null THEN Some([op |-> "clickOnFound", target |-> live])
  ELSE IF st.learnedPositions[text] # Null
  THEN Some([op |-> "clickOnLearned", target |-> st.learnedPositions[text]])
  ELSE Null

\* the replies of the handlers
ClickOnReply(h, success, usedLearned) ==
  [to |-> h.client, type |-> "clickOnResult", text |-> h.text,
   success |-> success, usedLearned |-> usedLearned, at |-> h.target]
Reply(h, type) == [to |-> h.client, type |-> type]

\* the awaited agent call of a direct action resolves or throws, and the
\* handler runs to its next await or to its reply
GwDirectDone ==
  /\ prog = "gateway"
  /\ \E h \in BagToSet(gwOps), ok \in BOOLEAN, screen \in [Texts -> Recognised] :
       /\ h.op \notin {"see", "clickOn"} \/ ~ok => screen = NothingSeen
       /\ LET left == gwOps (-) SetToBag({h})
              next == IF ok /\ h.op = "clickOn"
                      THEN AfterClickOnSee(gw, h.text, screen[h.text]) ELSE Null
          IN  /\ gwOps' =
                   IF next = Null THEN left
                   ELSE left (+) SetToBag({[h EXCEPT
                          !.op = next[1].op, !.target = next[1].target,
                          !.live = screen[h.text],
                          !.learned = gwLastLearned[h.text]]})
              /\ gw' = IF ~ok THEN gw     \* the message handler's error reply
                       ELSE CASE h.op = "see" -> LearnSeen(gw, screen, Texts)
                              [] h.op = "clickOn" -> gw
                              [] h.op = "click" -> Counted(gw, 1, 0)
                              [] h.op = "type" -> Counted(gw, 0, 1)
                              [] h.op \in KeyOps -> Counted(gw, 0, 0)
                              [] h.op = "clickOnLearned" -> Counted(gw, 1, 0)
                              [] h.op = "clickOnFound" ->
                                   Counted(Learn(gw, h.text, h.target[1]), 1, 0)
              /\ gwSent' =
                   IF ~ok THEN Some(ErrorReply(h.client))
                   ELSE CASE h.op = "see" -> Some(Reply(h, "seeResult"))
                          [] h.op = "clickOn" ->
                               IF next = Null
                               THEN Some(ClickOnReply(h, FALSE, FALSE))
                               ELSE gwSent
                          [] h.op = "click" -> Some(Reply(h, "clickResult"))
                          [] h.op = "type" -> Some(Reply(h, "typeResult"))
                          [] h.op = "hotkey" -> Some(Reply(h, "hotkeyResult"))
                          [] h.op = "urlBar" -> Some(Reply(h, "urlBarResult"))
                          [] h.op = "clickOnLearned" ->
                               Some(ClickOnReply(h, TRUE, TRUE))
                          [] h.op = "clickOnFound" ->
                               Some(ClickOnReply(h, TRUE, FALSE))
              /\ gwLastLearned' =
                   IF ~ok THEN gwLastLearned
                   ELSE CASE h.op = "see" ->
                               [t \in Texts |->
                                  IF screen[t] = Null THEN gwLastLearned[t]
                                  ELSE Some([at |-> screen[t], by |-> "see"])]
                          [] h.op = "clickOnFound" ->
                               [gwLastLearned EXCEPT ![h.text] =
                                  Some([at |-> h.target, by |-> "clickOn"])]
                          [] OTHER -> gwLastLearned
              \* saveSession() of handleSee and of the clickOn that learned
              /\ gwFile' = IF ok /\ h.op \in {"see", "clickOnFound"}
                           THEN Some(stringify(gw')) ELSE gwFile
  /\ UNCHANGED <<notGateway, gwEvents, gwRuns, gwTimers, gwStarted, gwTaskBudget, gwOpBudget,
                 gwRestartBudget, gwSockets, gwChildren,
                 gwMalformed, gwBadBudget>>

\* an autonomous-event message: forwarded to every client, and counted when
\* it tells of a click
AutonomousEvents == {"clicked", "scanned"}

GwAutonomousEvent ==
  /\ prog = "gateway"
  /\ gwOpBudget > 0
  /\ gwOpBudget' = gwOpBudget - 1
  /\ \E client \in gw.clients, what \in AutonomousEvents :
       /\ gwSent' = Some(Broadcast(gw, "autonomous-event"))
       /\ gw' = IF what = "clicked" THEN Counted(gw, 1, 0) ELSE gw
  /\ UNCHANGED <<notGateway, gwEvents, gwRuns, gwTimers, gwOps, gwStarted,
                 gwLastLearned, gwFile, gwTaskBudget, gwRestartBudget, gwSockets, gwChildren,
                 gwMalformed, gwBadBudget>>

\* SIGINT (saveSession, agent.cleanup, process.exit) and the next start of
\* the gateway: the handlers and timers of the old process are gone, the new
\* state object is built from the session file
GwSigintRestart ==
  /\ prog = "gateway"
  /\ gwFile' = Some(stringify(gw))
  /\ gw' = GatewayStart(gwFile')
  /\ gwRuns' = {}
  /\ gwTimers' = 0
  /\ gwOps' = EmptyBag
  /\ gwStarted' = <<>>
  /\ gwEvents' = <<>>
  /\ gwRestartBudget > 0
  /\ gwRestartBudget' = gwRestartBudget - 1
  /\ UNCHANGED <<notGateway, gwSent, gwLastLearned, gwTaskBudget, gwOpBudget,
                 gwSockets, gwChildren,
                 gwMalformed, gwBadBudget>>

\* what can be wrong with a message: JSON.parse throws, the type is none of
\* handleMessage's cases, or the payload that the handler of a known type
\* destructures is missing
Malformations == {"invalidJson", "unknownType", "noPayload"}

\* the message handler and handleMessage on a malformed message: what the
\* sender is sent.  JSON.parse and the destructuring of an undefined payload
\* throw into the catch block; the default case of the switch only logs.
Answer(client, what) ==
  IF what = "unknownType" THEN Null ELSE Some(ErrorReply(client))

GwMalformed ==
  /\ prog = "gateway"
  /\ gwBadBudget > 0
  /\ gwBadBudget' = gwBadBudget - 1
  /\ \E client \in gw.clients, what \in Malformations :
       LET reply == Answer(client, what)
       IN  /\ gwSent' = IF reply = Null THEN gwSent ELSE reply
           /\ gwMalformed' = Some([from |-> client, what |-> what, reply |-> reply,
                                   kept |-> client \in gw.clients])
  /\ UNCHANGED <<notGateway, gwEvents, gw, gwRuns, gwTimers, gwOps, gwStarted, gwChildren,
                 gwLastLearned, gwFile, gwSockets, gwTaskBudget, gwOpBudget,
                 gwRestartBudget>>

\* the runs in which clients use the autonomous mode
Supervising == DOMAIN gwChildren # {}

\* the child processes that have been spawned, and the next one to spawn
Spawned == {pid \in DOMAIN gwChildren : gwChildren[pid] # "unborn"}
NextPid == Cardinality(Spawned) + 1

\* a startAutonomous message: startAutonomousMode and the reply
GwStartAutonomous ==
  /\ prog = "gateway"
  /\ Supervising
  /\ \E client \in gw.clients :
       /\ gwSent' = Some([to |-> client, type |-> "autonomousStarted"])
       /\ IF gw.autonomousProcess # Null
          THEN UNCHANGED <<gw, gwChildren>>
          ELSE /\ NextPid \in DOMAIN gwChildren
               /\ gwChildren' = [gwChildren EXCEPT ![NextPid] = "alive"]
               /\ gw' = [gw EXCEPT !.autonomousProcess = Some(NextPid)]
  /\ UNCHANGED <<notGateway, gwEvents, gwRuns, gwTimers, gwOps, gwStarted, gwLastLearned,
                 gwFile, gwSockets, gwTaskBudget, gwOpBudget, gwRestartBudget,
                 gwMalformed, gwBadBudget>>

\* a stopAutonomous message: stopAutonomousMode and the reply.  The signal
\* does nothing to a process that has already ended.
GwStopAutonomous ==
  /\ prog = "gateway"
  /\ Supervising
  /\ \E client \in gw.clients :
       /\ gwSent' = Some([to |-> client, type |-> "autonomousStopped"])
       /\ IF gw.autonomousProcess = Null
          THEN UNCHANGED <<gw, gwChildren>>
          ELSE LET pid == gw.autonomousProcess[1]
               IN  /\ gwChildren' = [gwChildren EXCEPT ![pid] =
                                       IF @ = "alive" THEN "killed" ELSE @]
                   /\ gw' = [gw EXCEPT !.autonomousProcess = Null]
  /\ UNCHANGED <<notGateway, gwEvents, gwRuns, gwTimers, gwOps, gwStarted, gwLastLearned,
                 gwFile, gwSockets, gwTaskBudget, gwOpBudget, gwRestartBudget,
                 gwMalformed, gwBadBudget>>

\* a getState message
getState(st, client) ==
  [to |-> client, type |-> "state", autonomousRunning |-> st.autonomousProcess # Null]

GwGetState ==
  /\ prog = "gateway"
  /\ Supervising
  /\ \E client \in gw.clients : gwSent' = Some(getState(gw, client))
  /\ UNCHANGED <<notGateway, gwEvents, gw, gwRuns, gwTimers, gwOps, gwStarted, gwChildren,
                 gwLastLearned, gwFile, gwSockets, gwTaskBudget, gwOpBudget,
                 gwRestartBudget,
                 gwMalformed, gwBadBudget>>

\* the autonomous process ends: of itself ("exited", and "closed" once the
\* gateway has been told) or on the signal ("ended", then "stopped")
GwChildExit ==
  /\ prog = "gateway"
  /\ \E pid \in DOMAIN gwChildren :
       /\ gwChildren[pid] \in {"alive", "killed"}
       /\ gwChildren' = [gwChildren EXCEPT ![pid] =
                           IF @ = "alive" THEN "exited" ELSE "ended"]
  /\ UNCHANGED <<notGateway, gwEvents, gw, gwRuns, gwTimers, gwOps, gwStarted, gwSent,
                 gwLastLearned, gwFile, gwSockets, gwTaskBudget, gwOpBudget,
                 gwRestartBudget,
                 gwMalformed, gwBadBudget>>

\* autonomousProcess.on('close')
OnChildCloseKeepsFlag(st) == st

OnChildClose(st) == [st EXCEPT !.autonomousProcess = Null]

GwChildClose ==
  /\ prog = "gateway"
  /\ \E pid \in DOMAIN gwChildren :
       /\ gwChildren[pid] \in {"exited", "ended"}
       /\ gwChildren' = [gwChildren EXCEPT ![pid] =
                           IF @ = "exited" THEN "closed" ELSE "stopped"]
       /\ gw' = OnChildClose(gw)
       /\ gwSent' = Some(Broadcast(gw, "autonomousStopped"))
  /\ UNCHANGED <<notGateway, gwEvents, gwRuns, gwTimers, gwOps, gwStarted,
                 gwLastLearned, gwFile, gwSockets, gwTaskBudget, gwOpBudget,
                 gwRestartBudget,
                 gwMalformed, gwBadBudget>>

NextGateway ==
  GwConnect \/ GwClose \/ GwTask \/ GwRunStep \/ GwTimer \/ GwDirect \/ GwDirectDone
  \/ GwSigintRestart \/ GwMalformed \/ GwStartAutonomous \/ GwStopAutonomous
  \/ GwGetState \/ GwChildExit \/ GwChildClose

(***************************************************************************)
(* Timeout sensor  (src/timeout-sensor.js).  A frame is known by its md5    *)
(* hash; what the recogniser finds on it belongs to the frame.  The loop    *)
(* timer (3000 ms) and the cooldown timer (5000 ms) are set in one          *)
(* synchronous block, so the cooldown ends between the first and the        *)
(* second loop timer after a click.                                         *)
(***************************************************************************)
checkInterval == 3000
unchangedThreshold == 3
sensorCooldownAfterClick == 5000

\* the frames a run can show: their hashes, and those that show a button
\* findTimeoutButton accepts
SensorHashes == {1, 2, 3}
ShowsButton(h) == h >= 2

\* loop timers that fire before the cooldown timer does:
CooldownCycles == sensorCooldownAfterClick \div checkInterval

SensorState0 ==
  [running |-> TRUE, lastScreenHash |-> Null, unchangedCount |-> 0,
   mode |-> "watching"]

SensorInitVars ==
  /\ sensor = SensorState0
  /\ sensorPc = "timer"
  /\ sensorResume = Null
  /\ sensorFrame = Null
  /\ sensorRun = 0
  /\ sensorLog = <<>>
  /\ sensorSince = Null
  /\ sensorBudget = MaxSensorCycles

\* hasScreenChanged: a frame whose hash cannot be taken counts as changed and
\* leaves lastScreenHash alone
hasScreenChanged(st, hash) ==
  IF hash = Null
  THEN [changed |-> TRUE, st |-> st]
  ELSE [changed |-> st.lastScreenHash # hash,
        st |-> [st EXCEPT !.lastScreenHash = hash]]

\* the watching branch of sensorLoop
Watch(st, hash) ==
  IF st.mode # "watching" THEN st
  ELSE LET r == hasScreenChanged(st, hash)
       IN  IF r.changed THEN [r.st EXCEPT !.unchangedCount = 0]
           ELSE LET n == r.st.unchangedCount + 1
                IN  [r.st EXCEPT !.unchangedCount = n,
                                 !.mode = IF n >= unchangedThreshold
                                          THEN "timeout_detected" ELSE @]

\* what one cycle did: the hash of its frame, whether that frame differs
\* from the frame before it, the frames in a row that did not, the mode the
\* cycle began in, whether it searched, found and clicked, and the loop
\* timers that have fired since the last click (this cycle's among them)
SensorEntry(before, hash, differs, run, searched, found, clicked, since) ==
  [mode |-> before.mode, frame |-> hash, differs |-> differs, run |-> run,
   searched |-> searched, found |-> found, clicked |-> clicked, since |-> since]

\* one more loop timer has fired since the last click
Later(since) == IF since = Null THEN Null ELSE Some(since[1] + 1)

\* mutant: the click leaves the counter and the reference hash as they are
EnterCooldownKeepsCount(st) == [st EXCEPT !.mode = "cooldown"]

\* sensorLoop after a click: cooldown, counter and reference hash reset
EnterCooldown(st) ==
  [st EXCEPT !.mode = "cooldown", !.unchangedCount = 0, !.lastScreenHash = Null]

\* sensorLoop fires in cooldown: it only sets its timer again
SensorIdle ==
  /\ prog = "sensor"
  /\ sensorPc = "timer"
  /\ sensor.running
  /\ sensor.mode = "cooldown"
  /\ sensorResume # Null
  /\ sensorResume[1] < CooldownCycles
  /\ sensorBudget > 0
  /\ sensorBudget' = sensorBudget - 1
  /\ sensorResume' = Some(sensorResume[1] + 1)
  /\ sensorSince' = Later(sensorSince)
  /\ UNCHANGED <<notSensor, sensor, sensorPc, sensorFrame, sensorRun, sensorLog>>

\* the cooldown timer fires: state.mode = 'watching'
SensorResume ==
  /\ prog = "sensor"
  /\ sensorPc = "timer"
  /\ sensorResume # Null
  /\ sensorResume[1] >= CooldownCycles
  /\ sensor' = [sensor EXCEPT !.mode = "watching"]
  /\ sensorResume' = Null
  /\ UNCHANGED <<notSensor, sensorPc, sensorFrame, sensorRun, sensorLog, sensorBudget,
                 sensorSince>>

\* sensorLoop fires outside cooldown, up to the await of findTimeoutButton:
\* the screenshot may fail, the hash may fail
SensorLoop ==
  /\ prog = "sensor"
  /\ sensorPc = "timer"
  /\ sensor.running
  /\ sensor.mode # "cooldown"
  /\ sensorBudget > 0
  /\ sensorBudget' = sensorBudget - 1
  /\ sensorSince' = Later(sensorSince)
  /\ \E shot \in BOOLEAN, hashed \in BOOLEAN, h \in SensorHashes :
       IF ~shot
       THEN /\ hashed /\ h = 1
            /\ sensorLog' = <<SensorEntry(sensor, Null, FALSE, sensorRun, FALSE, FALSE,
                                             FALSE, sensorSince')>>
            /\ UNCHANGED <<sensor, sensorPc, sensorFrame, sensorRun>>
       ELSE LET hash == IF hashed THEN Some(h) ELSE Null
                differs == sensorFrame # hash
                run == IF differs THEN 0 ELSE sensorRun + 1
                st == Watch(sensor, hash)
                searched == st.mode = "timeout_detected"
            IN  /\ ~hashed => h = 1
                /\ sensor' = st
                /\ sensorFrame' = IF hashed THEN hash ELSE sensorFrame
                /\ sensorRun' = run
                /\ sensorPc' = IF searched THEN "ocr" ELSE "timer"
                /\ sensorLog' = <<SensorEntry(sensor, hash, differs, run, searched, FALSE,
                                                 FALSE, sensorSince')>>
  /\ UNCHANGED <<notSensor, sensorResume>>

\* findTimeoutButton returns: a button (clicked, cooldown entered whether or
\* not click.ps1 worked) or null (recognition failed or nothing found)
SensorFound ==
  /\ prog = "sensor"
  /\ sensorPc = "ocr"
  /\ \E ocrOk \in BOOLEAN, clickOk \in BOOLEAN :
       LET found == /\ ocrOk /\ sensorLog[1].frame # Null
                    /\ ShowsButton(sensorLog[1].frame[1])
       IN  /\ ~found => clickOk
           /\ sensorLog' = <<[sensorLog[1] EXCEPT !.found = found,
                                                  !.clicked = found /\ clickOk]>>
           /\ IF found
              THEN /\ sensor' = EnterCooldown(sensor)
                   /\ sensorResume' = Some(0)
                   /\ sensorSince' = Some(0)
              ELSE UNCHANGED <<sensor, sensorResume, sensorSince>>
  /\ sensorPc' = IF sensor.running THEN "timer" ELSE "exited"
  /\ UNCHANGED <<notSensor, sensorFrame, sensorRun, sensorBudget>>

\* SIGINT: state.running = false, process.exit(0)
SensorSigint ==
  /\ prog = "sensor"
  /\ sensorPc # "exited"
  /\ sensor' = [sensor EXCEPT !.running = FALSE]
  /\ sensorPc' = "exited"
  /\ sensorResume' = Null
  /\ UNCHANGED <<notSensor, sensorFrame, sensorRun, sensorLog, sensorBudget, sensorSince>>

NextSensor == SensorIdle \/ SensorResume \/ SensorLoop \/ SensorFound \/ SensorSigint

(***************************************************************************)
(* Desktop app  (main.js, src/unnamed/part_000): the three modes, the mouse *)
(* functions and the ghost watcher started and stopped by the modes.        *)
(***************************************************************************)
MODES ==
  [guardian |-> [mouse |-> FALSE, screenshot |-> TRUE, autonomous |-> FALSE, ghost |-> FALSE],
   turbo |-> [mouse |-> TRUE, screenshot |-> TRUE, autonomous |-> FALSE, ghost |-> TRUE],
   sword |-> [mouse |-> TRUE, screenshot |-> TRUE, autonomous |-> TRUE, ghost |-> TRUE]]

\* the names a caller of setMode may pass
ModeNames == DOMAIN MODES \cup {"zen"}

MainState0 ==
  [active |-> FALSE, mode |-> "guardian", mouse |-> FALSE, screenshot |-> TRUE,
   autonomous |-> FALSE, ghostActive |-> FALSE, ghostStats |-> [clicks |-> 0]]

MainInitVars ==
  /\ main = MainState0
  /\ mainPc = "loading"
  /\ mainInterval = FALSE
  /\ mainScans = 0
  /\ mainMouse = Null
  /\ mainBudget = MaxMainEvents

\* mutant: the mouse functions inject whatever the mode
MouseAllowedAlways(st) == TRUE

\* mouseMove, mouseClick: `if (!state.mouse) return false`, else inject and
\* return true
MouseAllowed(st) == st.mouse

MouseCall(st, op, by) ==
  Some([op |-> op, by |-> by, mode |-> st.mode,
        injected |-> MouseAllowed(st), returned |-> MouseAllowed(st)])

\* ghostScan up to `await vision.readScreen`: 1 when a scan is now in flight
ghostScan(st) == IF st.ghostActive THEN 1 ELSE 0

\* startGhost: with a timer already set nothing happens; else ghostActive,
\* the interval timer and the first scan
startGhost(st, interval, scans) ==
  IF interval THEN [st |-> st, interval |-> interval, scans |-> scans]
  ELSE LET on == [st EXCEPT !.ghostActive = TRUE]
       IN  [st |-> on, interval |-> TRUE, scans |-> scans + ghostScan(on)]

\* stopGhost: clearInterval, ghostActive = false
stopGhost(st, interval, scans) ==
  [st |-> [st EXCEPT !.ghostActive = FALSE], interval |-> FALSE, scans |-> scans]

\* setMode: an unknown name changes nothing
setMode(st, interval, scans, modeName) ==
  IF modeName \notin DOMAIN MODES
  THEN [st |-> st, interval |-> interval, scans |-> scans]
  ELSE LET mode == MODES[modeName]
           set == [st EXCEPT !.mode = modeName, !.mouse = mode.mouse,
                             !.screenshot = mode.screenshot,
                             !.autonomous = mode.autonomous]
       IN  IF mode.ghost THEN startGhost(set, interval, scans)
           ELSE stopGhost(set, interval, scans)

MainApply(r) ==
  /\ main' = r.st
  /\ mainInterval' = r.interval
  /\ mainScans' = r.scans

MainEvent ==
  /\ prog = "main"
  /\ mainBudget > 0
  /\ mainBudget' = mainBudget - 1

\* app.whenReady: windows, tray, hotkeys, setMode('guardian')
MainReady ==
  /\ prog = "main"
  /\ mainPc = "loading"
  /\ mainPc' = "ready"
  /\ MainApply(setMode(main, mainInterval, mainScans, "guardian"))
  /\ UNCHANGED <<notMain, mainMouse, mainBudget>>

\* a mode hotkey or a radio item of the tray menu, or a caller of the
\* exported setMode
MainSetMode ==
  /\ MainEvent
  /\ mainPc # "quit"
  /\ \E modeName \in ModeNames :
       /\ mainPc = "loading" => modeName \in DOMAIN MODES
       /\ MainApply(setMode(main, mainInterval, mainScans, modeName))
  /\ UNCHANGED <<notMain, mainPc, mainMouse>>

\* the tray item SLEEP MODE: the dot is hidden, setMode('sword')
MainSleepMode ==
  /\ MainEvent
  /\ mainPc = "ready"
  /\ MainApply(setMode([main EXCEPT !.active = FALSE], mainInterval, mainScans, "sword"))
  /\ UNCHANGED <<notMain, mainPc, mainMouse>>

\* toggleDot (hotkey, tray click, tray item)
MainToggleDot ==
  /\ MainEvent
  /\ mainPc = "ready"
  /\ main' = [main EXCEPT !.active = ~@]
  /\ UNCHANGED <<notMain, mainPc, mainInterval, mainScans, mainMouse>>

\* the interval timer fires: ghostScan
MainInterval ==
  /\ MainEvent
  /\ mainPc # "quit"
  /\ mainInterval
  /\ mainScans' = mainScans + ghostScan(main)
  /\ UNCHANGED <<notMain, main, mainPc, mainInterval, mainMouse>>

\* vision.readScreen settles: with a bestAction the scan calls mouseClick
\* and counts a click, whatever mouseClick returned; a rejection is caught
MainScanDone ==
  /\ prog = "main"
  /\ mainPc # "quit"
  /\ mainScans > 0
  /\ mainScans' = mainScans - 1
  /\ \E bestAction \in BOOLEAN :
       IF bestAction
       THEN /\ mainMouse' = MouseCall(main, "click", "ghost")
            /\ main' = [main EXCEPT !.ghostStats.clicks = @ + 1]
       ELSE UNCHANGED <<main, mainMouse>>
  /\ UNCHANGED <<notMain, mainPc, mainInterval, mainBudget>>

\* a caller of the exported mouseMove or mouseClick
MainMouse ==
  /\ MainEvent
  /\ mainPc # "quit"
  /\ \E op \in {"move", "click"} : mainMouse' = MouseCall(main, op, "caller")
  /\ UNCHANGED <<notMain, main, mainPc, mainInterval, mainScans>>

\* Quit: will-quit runs stopGhost, the process ends
MainQuit ==
  /\ prog = "main"
  /\ mainPc = "ready"
  /\ mainPc' = "quit"
  /\ MainApply(stopGhost(main, mainInterval, 0))
  /\ UNCHANGED <<notMain, mainMouse, mainBudget>>

NextMain ==
  MainReady \/ MainSetMode \/ MainSleepMode \/ MainToggleDot \/ MainInterval
  \/ MainScanDone \/ MainMouse \/ MainQuit

(***************************************************************************)
(* Specifications.                                                         *)
(***************************************************************************)
RichEnv == [pool |-> "rich", faults |-> TRUE, late |-> MaxLate]
RateEnv == [pool |-> "rate", faults |-> FALSE, late |-> 0]
DecideEnv == [pool |-> "decide", faults |-> FALSE, late |-> 0]

\* the programs are separate processes: a behaviour runs one of them and the
\* variables of the others stay as constructed
InitOthers(env, budget, load) ==
  /\ GhostInitVars(env, budget) /\ AutoInitVars(MaxAutoScans, MaxCmdClicks)
  /\ SmartInitVars
  /\ GatewayInitVars(load) /\ SensorInitVars /\ MainInitVars

NoLoad ==
  [tasks |-> 0, ops |-> 0, restarts |-> 0, starts |-> 0, bad |-> 0, sockets |-> {}]

InitGhost == prog = "ghost" /\ InitOthers(RichEnv, MaxCycles, NoLoad)
InitGhostRate == prog = "ghost" /\ InitOthers(RateEnv, -1, NoLoad)
InitAuto == prog = "auto" /\ InitOthers(RichEnv, MaxCycles, NoLoad)
InitSmart == prog = "smart" /\ InitOthers(RichEnv, MaxCycles, NoLoad)
InitGateway ==
  prog = "gateway" /\ \E load \in GatewayLoads : InitOthers(RichEnv, MaxCycles, load)

\* the ghost engine with the rich screen pool
SpecGhost == InitGhost /\ [][NextGhost]_vars
\* the ghost engine on a regular five-second beat, for the rate limiter
SpecGhostRate == InitGhostRate /\ [][NextGhost]_vars
\* the ghost engine keeping what decide was given in each cycle
InitGhostDecide == prog = "ghost" /\ InitOthers(DecideEnv, MaxDecideCycles, NoLoad)
SpecDecide == InitGhostDecide /\ [][NextGhost]_vars
\* the autonomous controller
SpecAuto == InitAuto /\ [][NextAuto]_vars
\* the autonomous controller sent one click command more than
\* maxActionsPerMinute; its scans are not followed
BurstCmds == autoMaxActionsPerMinute + 1

InitAutoBurst ==
  /\ prog = "auto"
  /\ GhostInitVars(RichEnv, MaxCycles) /\ AutoInitVars(0, BurstCmds)
  /\ SmartInitVars /\ GatewayInitVars(NoLoad) /\ SensorInitVars /\ MainInitVars

NextAutoBurst == AutoMainLoop \/ AutoCmdClick \/ AutoStop \/ AutoRateReset \/ AutoTime

SpecAutoBurst == InitAutoBurst /\ [][NextAutoBurst]_vars
\* smart-auto
SpecSmart == InitSmart /\ [][NextSmart]_vars
\* smart-auto after up to MaxEarlierClicks clicks made long ago
InitRecorded ==
  /\ prog = "smart"
  /\ GhostInitVars(RichEnv, MaxCycles) /\ AutoInitVars(MaxAutoScans, MaxCmdClicks)
  /\ GatewayInitVars(NoLoad) /\ SensorInitVars /\ MainInitVars
  /\ \E n \in 0..MaxEarlierClicks :
       /\ smart = AfterClicks(n)
       /\ smartRecorded = [i \in 1..n |-> EarlierClick(i)]
  /\ smartPc = "timer"
  /\ smartAge = SmartPollTicks
  /\ smartTarget = Null
  /\ smartLog = <<>>
  /\ smartBudget = MaxRecordScans
SpecRecorded == InitRecorded /\ [][NextSmart]_vars
\* the gateway
\* the gateway under task messages alone
InitGatewayTasks ==
  prog = "gateway" /\ InitOthers(RichEnv, MaxCycles,
       [tasks |-> MaxTasks, ops |-> 0, restarts |-> 0, starts |-> 0, bad |-> 0, sockets |-> {1}])

NextGatewayTasks == GwConnect \/ GwClose \/ GwTask \/ GwRunStep \/ GwTimer

SpecGateway == InitGateway /\ [][NextGateway]_vars
\* the gateway supervising the autonomous process: the close event of a
\* process that has ended is delivered
InitSupervise == prog = "gateway" /\ InitOthers(RichEnv, MaxCycles, SuperviseLoad)

NextSupervise ==
  GwConnect \/ GwClose \/ GwStartAutonomous \/ GwStopAutonomous \/ GwGetState
  \/ GwChildExit \/ GwChildClose

SpecSuperviseFair ==
  InitSupervise /\ [][NextSupervise]_vars /\ WF_vars(GwChildClose)

\* the gateway under the messages that count into state.stats
StatsLoad ==
  [tasks |-> 0, ops |-> MaxDirectOps, restarts |-> 0, starts |-> 0, bad |-> 0,
   sockets |-> {1}]

InitStats == prog = "gateway" /\ InitOthers(RichEnv, MaxCycles, StatsLoad)

NextStats ==
  GwConnect \/ GwClose \/ GwDirect \/ GwDirectKeys \/ GwAutonomousEvent \/ GwDirectDone

SpecStats == InitStats /\ [][NextStats]_vars

\* every awaited agent call of a task returns or throws, and every timer fires
SpecGatewayFair ==
  /\ InitGatewayTasks /\ [][NextGatewayTasks]_vars
  /\ WF_vars(GwRunStep) /\ WF_vars(GwTimer)
\* the two engines that confirm a button before clicking it
SpecConfirm == (InitGhost \/ InitAuto) /\ [][NextGhost \/ NextAuto]_vars
\* the ghost engine and the smart controller, whose recognition may fail
SpecRecognise == (InitGhost \/ InitSmart) /\ [][NextGhost \/ NextSmart]_vars
\* the three decision engines
SpecEngines ==
  (InitGhost \/ InitAuto \/ InitSmart) /\ [][NextGhost \/ NextAuto \/ NextSmart]_vars
\* the autonomous controller and the smart controller
SpecLoops == (InitAuto \/ InitSmart) /\ [][NextAuto \/ NextSmart]_vars

\* the timeout sensor
InitSensor == prog = "sensor" /\ InitOthers(RichEnv, MaxCycles, NoLoad)
SpecSensor == InitSensor /\ [][NextSensor]_vars

\* the desktop app
InitMain == prog = "main" /\ InitOthers(RichEnv, MaxCycles, NoLoad)
SpecMain == InitMain /\ [][NextMain]_vars

(***************************************************************************)
(* CLAIMS                                                                  *)
(***************************************************************************)
\* two candidates of one pattern in one 50-pixel position bucket
SameBucket(a, b) ==
  /\ a.text = b.text
  /\ RoundDiv(a.x, 50) = RoundDiv(b.x, 50)
  /\ RoundDiv(a.y, 50) = RoundDiv(b.y, 50)

GhostLast == ghostLog[Len(ghostLog)]
AutoLast == autoLog[Len(autoLog)]

\* C1: neither decide nor scanAndClick emits a click in a cycle in which the
\* selected candidate's sighting count, after that cycle's update, is below
\* confirmScans; and no click is performed in a cycle that emitted none.
C1_NoClickBelowThreshold ==
  /\ \A i \in 1..Len(ghostLog) :
       /\ ghostLog[i].action = "click" =>
            ghostLog[i].selected # Null /\ ghostLog[i].count >= confirmScans
       /\ ghostLog[i].clicked => ghostLog[i].action = "click"
  /\ \A i \in 1..Len(autoLog) :
       autoLog[i].action = "click" =>
         autoLog[i].selected # Null /\ autoLog[i].count >= autoConfirmScans

\* scanAndClick saw "Continue" twice and committed its click
C1_Witness ==
  /\ prog = "auto"
  /\ Len(autoLog) = autoConfirmScans
  /\ autoLog[1].action = "wait" /\ autoLog[1].count = 1
  /\ AutoLast.action = "click" /\ AutoLast.count = autoConfirmScans
  /\ auto.totalActions = 1
  /\ "Continue" \in DOMAIN auto.session.learnedPositions

\* C2: starting with no pending confirmation and the rate counter below its
\* ceiling, when the same candidate (same pattern, same 50-pixel bucket) is
\* the selected candidate on confirmScans consecutive ghost cycles, decide
\* waits on the earlier cycles and emits a click on the confirmScans-th, at
\* the coordinates of the candidate seen on that cycle.
C2_ConfirmedOnNthSighting ==
  (/\ prog = "ghost"
   /\ Len(ghostLog) = confirmScans
   /\ ghostLog[1].pendingBefore = Null
   /\ ghostLog[1].rateBefore < maxActionsPerMinute
   /\ \A i \in 1..confirmScans : ghostLog[i].selected # Null
   /\ \A i \in 2..confirmScans :
        SameBucket(ghostLog[1].selected[1], ghostLog[i].selected[1]))
  => /\ \A i \in 1..(confirmScans - 1) : ghostLog[i].action = "wait"
     /\ GhostLast.action = "click"
     /\ GhostLast.x = GhostLast.selected[1].x
     /\ GhostLast.y = GhostLast.selected[1].y

\* "Continue" at (1300,700) on cycles 1 and 2: one click at (1300,700), on cycle 2
C2_Witness ==
  /\ prog = "ghost"
  /\ Len(ghostLog) = 2
  /\ ghostBudget = MaxCycles - 2
  /\ ghostLog[1].pendingBefore = Null
  /\ ghostLog[1].selected # Null /\ ghostLog[2].selected # Null
  /\ ghostLog[1].selected[1].text = "Continue"
  /\ ghostLog[1].selected[1].x = 1300 /\ ghostLog[1].selected[1].y = 700
  /\ ghostLog[2].selected[1] = ghostLog[1].selected[1]
  /\ ghostLog[1].action = "wait"
  /\ ghostLog[2].action = "click" /\ ghostLog[2].x = 1300 /\ ghostLog[2].y = 700

C3_ClearedByAbsence ==
  /\ (prog = "ghost" /\ ghostLog # <<>> /\ GhostLast.action = "click") =>
       /\ Len(ghostLog) = confirmScans
       /\ \A i \in 1..(confirmScans - 1) :
            /\ ghostLog[i].selected # Null
            /\ ButtonKey(ghostLog[i].selected[1]) = ButtonKey(GhostLast.selected[1])
  /\ (prog = "auto" /\ autoLog # <<>> /\ AutoLast.action = "click") =>
       /\ Len(autoLog) = autoConfirmScans
       /\ \A i \in 1..(autoConfirmScans - 1) :
            /\ autoLog[i].selected # Null
            /\ autoLog[i].selected[1].text = AutoLast.selected[1].text

SmartChecks == smartLog[1].checks

\* the loop of smartScan got as far as the i-th target of the last scan
Reached(i) == \A j \in 1..(i - 1) : SmartChecks[j].outcome # "click"

\* clicked less than buttonCooldown ago
Cooling(c) == c.since # Null /\ c.since[1] < SmartCooldownTicks

C5_CooldownPerButton ==
  prog = "smart" =>
    /\ \A i \in 1..Len(smartLog) : \A k \in 1..Len(smartLog[i].checks) :
         LET c == smartLog[i].checks[k]
         IN  /\ Cooling(c) => c.outcome \in {"cooldown", "unreached"}
             /\ ~Cooling(c) => c.outcome # "cooldown"
    /\ smartTarget # Null => ~isOnCooldown(smart, smartTarget[1].button)

\* one scan: "Allow", clicked 5 s ago at another position, is held back;
\* "Continue", clicked buttonCooldown ago or earlier, is clicked again
C5_Witness ==
  /\ prog = "smart"
  /\ smartLog # <<>>
  /\ Len(SmartChecks) = 2
  /\ SmartChecks[1].button = "Allow" /\ SmartChecks[1].since = Some(5)
  /\ SmartChecks[1].outcome = "cooldown"
  /\ smart.learned["Allow"].x # SmartChecks[1].x
  /\ SmartChecks[2].button = "Continue" /\ SmartChecks[2].since = Some(SmartCooldownTicks)
  /\ SmartChecks[2].outcome = "click"
  /\ smartLog[1].committedNear # Null

Priority(id) == gw.tasks[id].priority

\* task a goes before task b: higher priority, or equal priority and
\* enqueued earlier
GoesBefore(a, b) ==
  \/ Priority(a) > Priority(b)
  \/ Priority(a) = Priority(b) /\ a < b

C8_ThrowAbortsTask ==
  prog = "gateway" =>
    \A id \in 1..Len(gw.tasks) :
      LET t == gw.tasks[id]
      IN  (t.thrownAt # Null /\ t.thrownAt[1] >= 1) =>
            /\ t.status = "failed"
            /\ t.error = t.thrownAt
            /\ t.invoked = t.thrownAt[1]
            /\ t.applied = t.thrownAt[1] - 1

\* the 2nd of 3 actions threw, and the queue has moved on to the next task
C8_Witness ==
  /\ prog = "gateway"
  /\ Len(gwStarted) >= 2
  /\ LET t == gw.tasks[gwStarted[1].task]
     IN  /\ t.actions = Some(3)
         /\ t.thrownAt = Some(2)
         /\ t.status = "failed" /\ t.invoked = 2 /\ t.applied = 1
  /\ gw.tasks[gwStarted[2].task].status = "completed"

Running == {id \in 1..Len(gw.tasks) : gw.tasks[id].status = "running"}

\* C9: at most one task has status "running", and at most one
\* processTaskQueue call is executing or waiting to continue.
C9_OneTaskRunning ==
  prog = "gateway" =>
    /\ Cardinality(Running) <= 1
    /\ Cardinality(gwRuns) + gwTimers <= 1
    /\ \A run \in gwRuns : Running = {run.task} /\ gw.currentTask = Some(run.task)

\* a task message arrived between the end of a task and the continuation
\* timer: the task waits in the queue, nothing runs
C9_Witness ==
  /\ prog = "gateway"
  /\ gwTimers = 1
  /\ gwRuns = {}
  /\ Len(gw.taskQueue) = 2
  /\ gw.currentTask # Null
  /\ gw.tasks[gw.currentTask[1]].status = "completed"

\* agent calls in flight: the actions of running tasks and the direct actions
AgentCallsInFlight ==
  Cardinality({run \in gwRuns : run.step >= 1})
  + BagCardinality(gwOps)

\* C10: the use of the shared agent is serialized: at no moment is more than
\* one agent call (a task's action or a direct client action) in flight.
C10_AgentSerialized ==
  prog = "gateway" => AgentCallsInFlight <= 1


\* what the reply sent by a step says of the handler h that sent it
RepliedBy(h, reply) ==
  /\ h.client = reply.to /\ h.text = reply.text /\ h.target = reply.at
  /\ reply.usedLearned <=> h.op = "clickOnLearned"

\* C11: clickOn(text) chooses its target cache-aside.  A handler clicking the
\* live match was given a match by find and clicks there; a handler clicking
\* the learned position had no live match and clicks where the text was last
\* learned; the success reply names the position clicked and says usedLearned
\* exactly for the learned one, and "Not found" is replied only when nothing
\* had been learned for the text.
C11_ClickOnCacheAside ==
  /\ [](\A h \in BagToSet(gwOps) :
          /\ h.op = "clickOnFound" => h.live # Null /\ h.target = h.live
          /\ h.op = "clickOnLearned" =>
               /\ h.live = Null
               /\ h.learned # Null
               /\ h.target = h.learned[1].at)
  /\ [][gwSent' # gwSent /\ gwSent'[1].type = "clickOnResult" =>
          IF gwSent'[1].success
          THEN \E h \in BagToSet(gwOps) :
                 /\ RepliedBy(h, gwSent'[1])
                 /\ BagCardinality(gwOps') < BagCardinality(gwOps)
          ELSE gwLastLearned[gwSent'[1].text] = Null]_vars

\* a clickOn without a live match has clicked where an earlier successful
\* clickOn of the same text learned it, and has said so
C11_Witness ==
  /\ gwSent # Null
  /\ gwSent[1].type = "clickOnResult"
  /\ gwSent[1].usedLearned
  /\ gwLastLearned[gwSent[1].text] =
       Some([at |-> gwSent[1].at, by |-> "clickOn"])


\* C12: the gateway state reloaded at the next startup is the one held at
\* shutdown: the same learned positions and the same stats
C12_SavedStateReproduced ==
  [][GwSigintRestart =>
       /\ gw'.learnedPositions = gw.learnedPositions
       /\ gw'.stats = gw.stats]_vars

\* the part of it that the session file carries: the learned positions
SessionRoundTrip ==
  [][GwSigintRestart => gw'.learnedPositions = gw.learnedPositions]_vars


\* task id has been placed in the queue / has reached a terminal status
Placed(id) == id \in DOMAIN gw.tasks
Terminal(id) == Placed(id) /\ gw.tasks[id].status \in {"completed", "failed"}

\* C13: the task queue always advances: whenever the queue is non-empty some
\* task is running or a start is scheduled, and every task placed in the
\* queue eventually reaches a terminal status
C13_QueueAdvances ==
  /\ [](gw.taskQueue # <<>> => gwRuns # {} \/ gwTimers > 0)
  /\ \A id \in 1..MaxTasks : Placed(id) ~> Terminal(id)

\* the same of the tasks that came with a list of actions
TasksWithActionsFinish ==
  \A id \in 1..MaxTasks :
    (Placed(id) /\ gw.tasks[id].actions # Null) ~> Terminal(id)


\* a call of scanAndClick that has started its cycle and not yet returned
InCycle(c) == autoCalls[c].pc \in {"see", "click"}

\* C14: scan cycles never overlap: a cycle of the autonomous controller starts
\* only after the previous one has returned, whether the main loop or a voice
\* command starts it
C14_CyclesNeverOverlap ==
  prog = "auto" => Cardinality({c \in Callers : InCycle(c)}) <= 1


\* the main loop enters scanAndClick / smartScan goes on to its scan
AutoCycleStarts ==
  autoCalls["main"].pc = "loop" /\ autoCalls'["main"].pc \in {"see", "sleep"}
SmartCycleStarts == smartPc = "timer" /\ smartPc' = "see"

\* C15: stopping a loop takes effect before its next poll cycle: the main loop
\* of the autonomous controller and smartScan start a cycle only while
\* running is true, the step that sets running to false changes nothing else
\* of the state, and the clicks committed are never taken back
C15_StopBeforeNextCycle ==
  [][/\ AutoCycleStarts => auto.running
     /\ SmartCycleStarts => smart.running
     /\ auto.running /\ ~auto'.running => auto' = [auto EXCEPT !.running = FALSE]
     /\ smart.running /\ ~smart'.running => smart' = [smart EXCEPT !.running = FALSE]
     /\ auto'.totalActions >= auto.totalActions
     /\ Len(auto'.session.clickHistory) >= Len(auto.session.clickHistory)
     /\ smart'.totalClicks >= smart.totalClicks]_vars

\* the autonomous loop was stopped while a cycle was in flight: the cycle
\* has committed its click and the loop has ended
C15_Witness ==
  /\ prog = "auto"
  /\ ~auto.running
  /\ autoCalls["main"].pc = "stopped"
  /\ autoLog # <<>>
  /\ AutoLast.action = "click"
  /\ auto.totalActions >= 1


\* C16: when the autonomous process has ended without a stop request, the
\* gateway is told; it then clears state.autonomousProcess, so that getState
\* reports autonomousRunning false, and broadcasts autonomousStopped to the
\* clients connected
C16_UnexpectedExitReported ==
  /\ [][\A pid \in DOMAIN gwChildren :
          gwChildren[pid] = "exited" /\ gwChildren'[pid] = "closed" =>
            /\ gw'.autonomousProcess = Null
            /\ \A client \in Clients : ~getState(gw', client).autonomousRunning
            /\ gwSent' = Some([toAll |-> gw'.clients, type |-> "autonomousStopped"])]_vars
  /\ \A pid \in 1..MaxStarts :
       (pid \in DOMAIN gwChildren /\ gwChildren[pid] = "exited")
         ~> (gwChildren[pid] = "closed")

\* two clients have been told of a process that ended of itself
C16_Witness ==
  /\ \E pid \in DOMAIN gwChildren : gwChildren[pid] = "closed"
  /\ gw.autonomousProcess = Null
  /\ gwSent = Some([toAll |-> Clients, type |-> "autonomousStopped"])


\* the step in which an awaited click of a scan cycle throws
AutoClickThrows ==
  /\ \E c \in Callers : autoCalls[c].pc = "click" /\ autoCalls'[c].pc # "click"
  /\ autoThrew'
SmartClickThrows == smartPc = "click" /\ smartPc' = "timer"

\* C17: when the click of a cycle throws, the action is not committed:
\* smartScan leaves lastClickTime, recentClicks, learned and totalClicks as
\* they were, scanAndClick leaves learnedPositions, successfulPatterns,
\* clickHistory, the action counters and the time of the last action as they
\* were, and with them the pending sighting, so that the candidate is clicked
\* again in a cycle that sees it
C17_FailedClickNotCommitted ==
  [][/\ AutoClickThrows =>
          /\ auto' = auto
          /\ autoSinceAction' = autoSinceAction
     /\ SmartClickThrows =>
          /\ smart' = smart
          /\ ~isOnCooldown(smart', smartTarget[1].button)]_vars

\* a confirmed click of the autonomous controller has thrown, and the button
\* is still pending with its sightings
C17_Witness ==
  /\ prog = "auto"
  /\ autoThrew
  /\ auto.totalActions = 0
  /\ auto.pendingButton # Null
  /\ auto.pendingCount >= autoConfirmScans


\* the step that ends the recognition of a cycle without any word
GhostSeesNothing ==
  /\ ghostPc = "ocr" /\ ghostPc' # "ocr"
  /\ ghostLog'[Len(ghostLog')].seen \in {"failed", "nothing"}
SmartSeesNothing ==
  /\ smartPc = "see" /\ smartPc' \notin {"see", "exited"}
  /\ smartLog'[1].seen \in {"failed", "nothing"}

C19_MalformedAnswered ==
  gwMalformed # Null =>
    /\ gwMalformed[1].reply = Some(ErrorReply(gwMalformed[1].from))
    /\ gwMalformed[1].kept

\* the same of the messages that throw: invalid JSON and a missing payload
ThrowingMessagesAnswered ==
  (gwMalformed # Null /\ gwMalformed[1].what # "unknownType") =>
    /\ gwMalformed[1].reply = Some(ErrorReply(gwMalformed[1].from))
    /\ gwMalformed[1].kept


\* C20: a scan cycle issues at most one click, however many watched patterns
\* its snapshot shows: a scan of smartScan sends one target at most to
\* agent.click, a cycle of ghostLoop commits one click at most, and a call of
\* scanAndClick that comes back from its click has committed one at most
C20_AtMostOneClickPerCycle ==
  /\ [](smartLog # <<>> => smartLog[1].issued <= 1)
  /\ [][/\ ghostPc = "ocr" /\ ghostPc' = "timer" =>
             ghost'.actionsThisMinute <= ghost.actionsThisMinute + 1
        /\ (\E c \in Callers : autoCalls[c].pc = "click" /\ autoCalls'[c].pc # "click") =>
             /\ auto'.totalActions <= auto.totalActions + 1
             /\ auto'.session.totalClicks <= auto.session.totalClicks + 1
             /\ \A c \in Callers : autoCalls'[c].pc = "click" => autoCalls[c].pc = "click"
       ]_vars

\* a scan of smartScan saw two buttons, clicked the first and left the other
C20_Witness ==
  /\ prog = "smart"
  /\ smartPc = "timer"
  /\ smartLog # <<>>
  /\ Len(smartLog[1].checks) = 2
  /\ smartLog[1].checks[1].outcome = "click"
  /\ smartLog[1].checks[2].outcome = "unreached"
  /\ smartLog[1].committedNear # Null
  /\ smartLog[1].issued = 1
  /\ smart.totalClicks = 1


\* a search the sensor begins in the cycle that detects the timeout is made
\* on a frame that ends unchangedThreshold frames like the one before them
SearchWhenDetected ==
  sensorLog # <<>> /\ sensorLog[1].searched /\ sensorLog[1].mode = "watching" =>
    /\ sensorLog[1].run >= unchangedThreshold
    /\ ~sensorLog[1].differs

\* C21: the timeout sensor searches for a button in a cycle only if the
\* frames of the unchangedThreshold checks ending at that cycle were each
\* like the frame before them; it never searches a frame that differs from
\* the preceding frame
C21_SearchOnlyWhenUnchanged ==
  sensorLog # <<>> /\ sensorLog[1].searched =>
    /\ sensorLog[1].run >= unchangedThreshold
    /\ ~sensorLog[1].differs


\* C22: a scan of smartScan whose recognition failed or found nothing clicks
\* at the learned coordinates of a button that has a learned position (and is
\* not held back by its cooldown) instead of doing nothing
C22_LearnedFallback ==
  (/\ prog = "smart" /\ smartLog # <<>>
   /\ smartLog[1].seen \in {"failed", "nothing"}
   /\ smartPc = "timer" /\ smartAge = 0) =>
    \A b \in DOMAIN smart.learned :
      ~isOnCooldown(smart, b) =>
        /\ smartLog[1].target # Null
        /\ smartLog[1].target[1].x = smart.learned[b].x
        /\ smartLog[1].target[1].y = smart.learned[b].y


\* C23: in every reachable state the taskQueue is ordered by non-increasing
\* priority, and tasks of equal priority stand in the order they were enqueued
C23_QueueOrdered ==
  prog = "gateway" =>
    \A i, j \in 1..Len(gw.taskQueue) :
      i < j => GoesBefore(gw.taskQueue[i], gw.taskQueue[j])

\* three tasks wait: the last to arrive has the highest priority and stands
\* first, the two of equal priority behind it in their order of arrival
C23_Witness ==
  /\ prog = "gateway"
  /\ gw.taskQueue = <<3, 1, 2>>
  /\ Priority(3) > Priority(1)
  /\ Priority(1) = Priority(2)


\* C24: while the mode is guardian, state.mouse is false and the ghost
\* watcher is stopped (ghostActive false, no polling timer), and a call of
\* mouseMove or mouseClick made in guardian mode injects nothing and returns
\* false, after any sequence of mode switches
C24_GuardianInjectsNothing ==
  prog = "main" =>
    /\ main.mode = "guardian" =>
         ~main.mouse /\ ~main.ghostActive /\ ~mainInterval
    /\ (mainMouse # Null /\ mainMouse[1].mode = "guardian") =>
         ~mainMouse[1].injected /\ ~mainMouse[1].returned

\* a scan begun in another mode found a button after the switch to guardian:
\* its click was refused, and a scan begun before is still in flight
C24_Witness ==
  /\ prog = "main"
  /\ main.mode = "guardian"
  /\ mainMouse # Null
  /\ mainMouse[1].by = "ghost" /\ mainMouse[1].mode = "guardian"
  /\ ~mainMouse[1].injected
  /\ main.ghostStats.clicks = 1
  /\ mainScans = 1


\* C25: a scan of smartScan in which loop detection fires for a candidate
\* emits no click at all
C25_LoopCycleEmitsNoClick ==
  (/\ prog = "smart" /\ smartLog # <<>>
   /\ \E i \in 1..Len(SmartChecks) : SmartChecks[i].outcome = "loop")
  => /\ smartLog[1].target = Null
     /\ smartLog[1].issued = 0
     /\ \A i \in 1..Len(SmartChecks) : SmartChecks[i].outcome # "click"


\* the buttons findButtons found in the cycle last finished
Found == ghostSight[1].all

\* the found buttons of the bottom-right region, and those of the dialog box
BottomRight == {i \in 1..Len(Found) : Found[i].x > 1200 /\ Found[i].y > 500}
Dialog ==
  {i \in 1..Len(Found) :
     /\ Found[i].text \in {"Allow", "Yes", "OK", "Keep"}
     /\ Found[i].confidence > 90
     /\ 350 < Found[i].y /\ Found[i].y < 650
     /\ 400 < Found[i].x /\ Found[i].x < 900}

\* the candidates that qualify: the dialog region counts only when the
\* bottom-right region is empty
Qualifying == IF BottomRight # {} THEN BottomRight ELSE Dialog

\* C26: every click of ghost decide is at a found button of the action
\* region: of the bottom-right region, or of the dialog box when no found
\* button lies bottom right; with no found button in either region the cycle
\* does not click
C26_ClicksInsideRegion ==
  (prog = "ghost" /\ ghostSight # Null) =>
    /\ GhostLast.action = "click" =>
         \E i \in Qualifying :
           /\ GhostLast.selected = Some(Found[i])
           /\ GhostLast.x = Found[i].x /\ GhostLast.y = Found[i].y
    /\ GhostLast.selected # Null => \E i \in Qualifying : GhostLast.selected = Some(Found[i])
    /\ (BottomRight = {} /\ Dialog = {}) =>
         GhostLast.action = "wait" /\ GhostLast.selected = Null

\* the dialog button was clicked while a button of the chat history, read
\* better, was on screen
C26_Witness ==
  /\ prog = "ghost" /\ ghostSight # Null
  /\ Len(Found) = 2
  /\ BottomRight = {}
  /\ Cardinality(Dialog) = 1
  /\ GhostLast.action = "click" /\ GhostLast.clicked
  /\ GhostLast.x = 600 /\ GhostLast.y = 500

PriorityOf(b) == IndexOf(priorityOrder, b.text)

\* the stuck detection applies: the same pattern was decided twice or more
\* and a qualifying candidate has another pattern
Stuck ==
  /\ ghostSight[1].sameButtonCount >= 2
  /\ \E i \in Qualifying : Some(Found[i].text) # ghostSight[1].lastClickedButton

C28_StuckPrefersAlternate ==
  (prog = "ghost" /\ ghostSight # Null /\ Stuck /\ GhostLast.rateBefore < maxActionsPerMinute) =>
    /\ GhostLast.selected # Null
    /\ Some(GhostLast.selected[1].text) # ghostSight[1].lastClickedButton

\* after two clicks of Allow, Continue was selected although Allow was there
C28_Witness ==
  /\ prog = "ghost" /\ ghostSight # Null
  /\ Stuck
  /\ ghostSight[1].lastClickedButton = Some("Allow")
  /\ \E i \in Qualifying : Found[i].text = "Allow"
  /\ GhostLast.selected # Null
  /\ GhostLast.selected[1].text = "Continue"


\* C29: actionsThisMinute is a rolling count: whenever no decrement timer is
\* due, it equals the number of clicks committed in the trailing 60 s
C29_RollingCount ==
  (prog = "ghost" /\ \A age \in ghostDecTimers : age < GhostRateTicks) =>
    ghost.actionsThisMinute = Cardinality(ghostClicks)

\* the counter never exceeds the clicks of the trailing 60 s
CounterBelowWindow ==
  prog = "ghost" => ghost.actionsThisMinute <= Cardinality(ghostClicks)


\* C30: the clicks the autonomous controller performs in any trailing 60 s,
\* by whatever path, never exceed maxActionsPerMinute; in particular the
\* clicks performed since the rate limiter's 60 s interval last fired do not
C30_ClicksPerMinuteBounded ==
  prog = "auto" => autoClicked <= autoMaxActionsPerMinute


\* a see request that recognised a pattern wrote its position, which no click
\* has been made at, into learnedPositions and into the session file
SeeLearns ==
  /\ prog = "gateway"
  /\ gwSent # Null /\ gwSent[1].type = "seeResult"
  /\ \E t \in Texts :
       /\ gw.learnedPositions[t] # Null
       /\ gwLastLearned[t] # Null /\ gwLastLearned[t][1].by = "see"

\* C31: every position stored in session.learnedPositions was written by a
\* click-by-text on a live match and is the coordinate of the click that was
\* made; a see request writes none
C31_LearnedOnlyFromClicks ==
  prog = "gateway" =>
    \A t \in Texts :
      gw.learnedPositions[t] # Null =>
        /\ gwLastLearned[t] # Null
        /\ gwLastLearned[t][1].by = "clickOn"
        /\ gwLastLearned[t][1].at = gw.learnedPositions[t]


\* the cycles of sensorLoop that came after a click
AfterClick == sensorLog # <<>> /\ sensorLog[1].since # Null /\ sensorLog[1].since[1] > 0

\* C32: after a click the sensor takes no screenshot, and so searches and
\* clicks nothing, before cooldownAfterClick has elapsed; and the next search
\* comes only after the check that takes the new reference hash and
\* unchangedThreshold further checks made since the cooldown ended, which
\* found the frame unchanged when the search begins in the watching mode
C32_CooldownThenFreshCount ==
  (prog = "sensor" /\ AfterClick) =>
    LET e == sensorLog[1]
        n == e.since[1]
    IN  /\ n * checkInterval >= sensorCooldownAfterClick
        /\ e.searched =>
             /\ n >= CooldownCycles + 1 + unchangedThreshold
             /\ e.mode = "watching" => e.run >= unchangedThreshold /\ ~e.differs

\* the sensor clicked, sat out the cooldown, took a new reference frame, saw
\* it unchanged three times and searched again
C32_Witness ==
  /\ prog = "sensor" /\ AfterClick
  /\ sensorLog[1].searched /\ sensorLog[1].mode = "watching"
  /\ sensorLog[1].since[1] = CooldownCycles + 1 + unchangedThreshold
  /\ sensorPc = "ocr"


\* the moves of a task's status from one state to the next
StatusStep(a, b) ==
  \/ a = b
  \/ a = "queued" /\ b = "running"
  \/ a = "running" /\ b \in {"completed", "failed"}

\* C33: a task's status only moves queued -> running -> completed or failed.
\* No step of the gateway takes a task away; a running task stays the current
\* task, out of the queue, with the actions it has started, until its status
\* is completed or failed, and that status stays
C33_StatusOnlyAdvances ==
  [][prog = "gateway" /\ gwRestartBudget' = gwRestartBudget =>
       \A id \in DOMAIN gw.tasks :
         /\ id \in DOMAIN gw'.tasks
         /\ StatusStep(gw.tasks[id].status, gw'.tasks[id].status)
         /\ gw.tasks[id].status = "running" =>
              /\ gw'.currentTask = Some(id)
              /\ \A i \in 1..Len(gw'.taskQueue) : gw'.taskQueue[i] # id
              /\ gw'.tasks[id].invoked >= gw.tasks[id].invoked]_vars

\* one task has completed, one has failed, the third runs mid-sequence
C33_Witness ==
  /\ prog = "gateway"
  /\ \E a, b, c \in DOMAIN gw.tasks :
       /\ gw.tasks[a].status = "completed"
       /\ gw.tasks[b].status = "failed"
       /\ gw.tasks[c].status = "running" /\ gw.tasks[c].invoked > 0
       /\ gw.currentTask = Some(c)


\* C34: every committed click is appended to recentClicks; after recordClick
\* the list holds at most 20 entries, and they are the most recent clicks
\* recorded, in their order, the last of them the click just committed
C34_RecentClicksBounded ==
  prog = "smart" =>
    LET rc == smart.recentClicks
        k == Len(rc)
        n == Len(smartRecorded)
    IN  /\ k <= recentClicksMax
        /\ k <= n
        /\ n > 0 => k > 0
        /\ \A i \in 1..k : Recorded(rc[i]) = smartRecorded[n - k + i]

\* the twenty-first click has just been recorded: the list holds the last
\* ten clicks
C34_Witness ==
  /\ prog = "smart"
  /\ smartPc = "sleep"
  /\ Len(smartRecorded) = recentClicksMax + 1
  /\ Len(smart.recentClicks) = recentClicksKept
  /\ smart.recentClicks[recentClicksKept].time = 0


\* the child processes that have not ended: running, or sent SIGINT and
\* still on their way out
Alive == {pid \in DOMAIN gwChildren : gwChildren[pid] \in {"alive", "killed"}}

\* a child that runs and was not told to stop is the one the handle names
RunningChildTracked ==
  \A pid \in DOMAIN gwChildren :
    gwChildren[pid] = "alive" => gw.autonomousProcess = Some(pid)

\* C35: under every interleaving of startAutonomous, stopAutonomous and the
\* close events of the children, at most one child process is alive, and
\* state.autonomousProcess names the running child as long as it runs (the
\* close event of a stopped child does not clear the handle of a newer one)
C35_OneChildTracked ==
  prog = "gateway" =>
    /\ Cardinality(Alive) <= 1
    /\ RunningChildTracked


\* C36: a task message that is answered with an error response leaves
\* taskQueue and currentTask as they were: a rejected request enqueues no task
C36_RejectedTaskNotEnqueued ==
  [][(/\ prog = "gateway"
      /\ gwTaskBudget' < gwTaskBudget
      /\ gwSent' = Some(ErrorReply(gwSent'[1].to))) =>
       /\ gw'.taskQueue = gw.taskQueue
       /\ gw'.currentTask = gw.currentTask]_vars


\* C37: after any sequence of gateway messages totalActions is at least
\* totalClicks + totalTypes, and no step makes any of the three counters
\* smaller
C37_StatsMonotone ==
  /\ [](prog = "gateway" =>
          gw.stats.totalActions >= gw.stats.totalClicks + gw.stats.totalTypes)
  /\ [][prog = "gateway" =>
          /\ gw'.stats.totalActions >= gw.stats.totalActions
          /\ gw'.stats.totalClicks >= gw.stats.totalClicks
          /\ gw'.stats.totalTypes >= gw.stats.totalTypes]_vars

\* a click, a typed text and a hotkey have been counted: three actions, one
\* click, one type
C37_Witness ==
  /\ prog = "gateway"
  /\ gw.stats.totalClicks = 1
  /\ gw.stats.totalTypes = 1
  /\ gw.stats.totalActions = 3


\* C38: the ghost engine holds at most one pending confirmation, consistent
\* at every cycle boundary: pendingButton is null exactly when pendingCount
\* is 0, and 0 <= pendingCount < confirmScans, the decision that reaches the
\* threshold having reset both
C38_PendingConsistent ==
  prog = "ghost" =>
    /\ ghost.pendingButton = Null <=> ghost.pendingCount = 0
    /\ ghost.pendingCount >= 0
    /\ ghost.pendingCount < confirmScans

\* a first confirmation reached the threshold and was reset with its click;
\* the cycle just decided holds a new pending sighting
C38_Witness ==
  /\ prog = "ghost"
  /\ ghost.lastClickedButton # Null
  /\ ghost.pendingButton # Null
  /\ ghost.pendingCount = confirmScans - 1
  /\ ghostLog # <<>> /\ GhostLast.action = "wait" /\ GhostLast.selected # Null


\* the task events sent about task id, by type
EventTypes(id) == [i \in 1..Len(gwEvents[id]) |-> gwEvents[id][i].type]

\* the tasks whose taskStarted has been broadcast and whose taskCompleted
\* has not
Underway ==
  {id \in DOMAIN gwEvents :
     /\ \E i \in 1..Len(gwEvents[id]) : gwEvents[id][i].type = "taskStarted"
     /\ \A i \in 1..Len(gwEvents[id]) : gwEvents[id][i].type # "taskCompleted"}

\* C39: for every task the gateway accepted, the events sent about it are
\* taskQueued to the requester, then taskStarted and taskCompleted to every
\* client, each once and in this order, as far as the task has come;
\* taskCompleted carries the terminal status of the task; and no taskStarted
\* of another task comes between a task's taskStarted and its taskCompleted
C39_TaskEventsInOrder ==
  prog = "gateway" =>
    /\ Len(gwEvents) = Len(gw.tasks)
    /\ Cardinality(Underway) <= 1
    /\ \A id \in DOMAIN gw.tasks :
         gw.tasks[id].actions # Null =>
           LET ev == gwEvents[id]
               status == gw.tasks[id].status
               order == <<"taskQueued", "taskStarted", "taskCompleted">>
           IN  /\ Len(ev) = CASE status = "queued" -> 1
                              [] status = "running" -> 2
                              [] OTHER -> 3
               /\ EventTypes(id) = SubSeq(order, 1, Len(ev))
               /\ \A i \in 1..Len(ev) : ev[i].toAll = (i > 1)
               /\ Len(ev) = 3 =>
                    /\ ev[3].status \in {"completed", "failed"}
                    /\ ev[3].status = status

\* the first task was queued, started and completed, the second was queued
\* while the first ran, then started, and failed, and the third waits for
\* the timer
C39_Witness ==
  /\ prog = "gateway"
  /\ Len(gwEvents) = 3
  /\ \A id \in 1..3 : gw.tasks[id].actions # Null
  /\ Len(gwEvents[1]) = 3 /\ gwEvents[1][3].status = "completed"
  /\ Len(gwEvents[2]) = 3 /\ gwEvents[2][3].status = "failed"
  /\ Len(gwEvents[3]) = 1
  /\ gwStarted[2].task = 2

====
